---------------------------- MODULE Spec2Model ----------------------------
(***************************************************************************)
(* State-machine model of the USB-host-to-serial bridge service            *)
(* (TinyUsbCdcService) and of the USB_CDC application handlers that drive  *)
(* it.  Source: components/apps/uart_usb (service code is the text that    *)
(* follows the image header in assets/img_app_usbcdc.h) and USB_CDC.cpp.   *)
(*                                                                         *)
(* Execution contexts, each with its own program counter:                  *)
(*   "ui"   the LVGL/application thread (button handlers, write, end)      *)
(*   "usb"  the CDC driver context running device_event_callback and       *)
(*          data_received_callback                                         *)
(*   the scan task (device_scan_task) and the heartbeat tasks              *)
(* A step of the model is one access to shared state, so that every        *)
(* interleaving the preemptive scheduler allows is explored.  Time is not  *)
(* modelled: vTaskDelay is stuttering, and a bounded wait (the 200 and 300 *)
(* slices of stopScan and stopHeartbeat, the timeout of a blocking call)   *)
(* may end at any moment, before or after the awaited thing has happened.  *)
(* SpecStop refines the two wait loops: it counts their slices.            *)
(***************************************************************************)
EXTENDS Integers, Sequences, FiniteSets, TLC

(***************************************************************************)
(* Bounds of the model (not program constants).                            *)
(***************************************************************************)
\* number of successful cdc_acm_host_open calls explored (handles 1..MaxOpens)
MaxOpens == 1
\* number of heartbeat task control blocks the RTOS can hold at once
MaxHbTasks == 2
\* number of CDC_ACM_HOST_ERROR events the driver raises
MaxErrors == 1
\* slices of stopScan's cooperative wait (200 in the code, line 243), scaled down
ScanWaitSlices == 2
\* calls of write followed in one run
MaxWrites == 2
\* heartbeat frames followed in one session
MaxFrames == 3
\* slices of stopHeartbeat's cooperative wait (300 in the code, line 314), scaled down
HbWaitSlices == 2

(***************************************************************************)
(* Device types (enum UsbDeviceType) and the candidate table.              *)
(***************************************************************************)
DEVICE_TYPE_UNKNOWN == "UNKNOWN"
DEVICE_TYPE_CH340 == "CH340"
DEVICE_TYPE_FT232 == "FT232"
DEVICE_TYPE_CP210X == "CP210X"
DEVICE_TYPE_PL2303 == "PL2303"
DEVICE_TYPE_CDC_STANDARD == "CDC_STANDARD"

\* common_vid_pid of device_scan_task, in table order (values in decimal)
common_vid_pid ==
  << <<6790, 29987>>, <<6790, 29986>>, <<6790, 30084>>, <<6790, 21795>>,
     <<1027, 24577>>, <<1027, 24592>>, <<1027, 24593>>, <<1027, 24596>>,
     <<1027, 24597>>,
     <<4292, 60000>>, <<4292, 60016>>, <<4292, 60017>>,
     <<1659, 8963>>, <<1659, 8964>>,
     <<9025, 67>>, <<5824, 1155>>, <<9114, 32779>> >>

\* the scan loop of the model probes the first NumProbed entries of ScanOrder
NumProbed == 2
\* one table entry per chipset family: CH340, CP210x, FT232, PL2303, Arduino
ScanOrder == << 1, 10, 5, 13, 15 >>
Candidate(i) == common_vid_pid[ScanOrder[i]]

\* a detectDeviceType that answers DEVICE_TYPE_UNKNOWN for what it does not know
detectDeviceTypeUnknownDefault(vid, pid) ==
  IF vid = 6790 /\ pid \in {29987, 29986, 30084, 21795} THEN DEVICE_TYPE_CH340
  ELSE IF vid = 1027 /\ pid \in {24577, 24592, 24593, 24596, 24597}
       THEN DEVICE_TYPE_FT232
  ELSE IF vid = 4292 /\ pid \in {60000, 60016, 60017} THEN DEVICE_TYPE_CP210X
  ELSE IF vid = 1659 /\ pid \in {8963, 8964} THEN DEVICE_TYPE_PL2303
  ELSE IF vid \in {9025, 1155, 1003, 1240} THEN DEVICE_TYPE_CDC_STANDARD
  ELSE DEVICE_TYPE_UNKNOWN

\* detectDeviceType(vid, pid)
detectDeviceType(vid, pid) ==
  IF vid = 6790 /\ pid \in {29987, 29986, 30084, 21795} THEN DEVICE_TYPE_CH340
  ELSE IF vid = 1027 /\ pid \in {24577, 24592, 24593, 24596, 24597}
       THEN DEVICE_TYPE_FT232
  ELSE IF vid = 4292 /\ pid \in {60000, 60016, 60017} THEN DEVICE_TYPE_CP210X
  ELSE IF vid = 1659 /\ pid \in {8963, 8964} THEN DEVICE_TYPE_PL2303
  ELSE IF vid = 9025 THEN DEVICE_TYPE_CDC_STANDARD
  ELSE IF vid = 1155 THEN DEVICE_TYPE_CDC_STANDARD
  ELSE IF vid = 1003 \/ vid = 1240 THEN DEVICE_TYPE_CDC_STANDARD
  ELSE DEVICE_TYPE_CDC_STANDARD

\* the adapters the environment plugs in: the probed candidates
Devices == 1..NumProbed

\* SerialConfig values the settings screen can produce (two of them):
\* the constructor's default 115200 8N1, and 9600 7E2
DefaultConfig == [baud_rate |-> 115200, data_bits |-> 8, parity |-> 0, stop_bits |-> 0]
Configs == { DefaultConfig,
             [baud_rate |-> 9600, data_bits |-> 7, parity |-> 2, stop_bits |-> 2] }

\* bRequest codes of the control transfers (decimal): the CDC class requests
\* of configureSerialPort and the vendor requests of configureCH340SerialPort
SET_LINE_CODING == 32
GET_LINE_CODING == 33
SET_CONTROL_LINE_STATE == 34
CH340_SET_BAUD_RATE == 154
CH340_SET_DATA_FORMAT == 155
CH340_SET_CONTROL_LINES == 164

Threads == {"ui", "usb"}
HbTasks == 1..MaxHbTasks
Handles == 1..MaxOpens


(***************************************************************************)
(* State.                                                                  *)
(***************************************************************************)
VARIABLES
  \* --- TinyUsbCdcService fields ---
  scan_task_handle,            \* TRUE: _scan_task_handle != nullptr
  heartbeat_task_handle,       \* 0: nullptr, k: the task in slot k
  scan_task_should_stop,
  heartbeat_task_should_stop,
  is_device_connected,         \* _s_is_device_connected
  cdc_device_handle,           \* _s_cdc_device_handle, 0: nullptr
  device_vid, device_pid,      \* _s_device_vid / _s_device_pid
  current_device_type,
  current_config,
  heartbeat_enabled,
  \* --- tasks ---
  scanPc, scanI,               \* device_scan_task: position, candidate index
  hbPc,                        \* heartbeat_task per slot: position
  hbCounter,                   \* heartbeat_task per slot: its local counter
  \* --- threads "ui" and "usb" ---
  pc, stack,                   \* position, return addresses
  wi,                          \* slice counter i of the wait loop a thread is in
  loaded,                      \* _heartbeat_task_handle as a thread read it at line 322
  newCfg, attempt,             \* onButtonApplyClicked locals
  startEnabled,                \* START button enabled (STOP is its complement)
  displayed,                   \* the last "[Settings]" message put into the text area
  \* --- USB stack seen from the service ---
  attached,                    \* 0: nothing plugged, else the candidate plugged in
  hstate,                      \* per handle: unused/open/gone/notified/closed
  errCount,                    \* CDC_ACM_HOST_ERROR events raised so far
  \* --- history (not program state) ---
  stopFromScanning,            \* the stop flag was set while Scanning, Idle not yet reached
  configured,                  \* a Configurator transfer was issued since the last open
  sinceDisconnect,             \* a disconnect notification was handled, START not clicked since
  writeLog,                    \* calls of write: len, and whether the guard let it transmit
  frames,                      \* heartbeat frames transmitted: task, sequence number, result
  reqLog,                      \* control transfers of the configureSerialPort call in progress
                               \* or last returned inside the Apply handler
  \* --- receive ring buffer (_s_rx_ring_buffer) ---
  rx_ring_buffer,              \* TRUE: _s_rx_ring_buffer != nullptr
  rbData, rbRead, rbWrite, rbFull,   \* storage, read and write positions, full flag
  \* --- history of the buffer traffic (not program state) ---
  pushed,                      \* bytes handed to the receive callback so far
  accepted,                    \* the bytes the buffer took, in order
  readOut,                     \* the concatenation of all read results
  lastRead, lastPush, lastOp,  \* the last read, the last push, which came last
  pushesOnly,                  \* since the buffer was last empty: no read, no push refused
  lossRecorded,                \* loss records (log lines, counts) made by the receive callback
  \* --- a call of detectDeviceType on its own ---
  argVid, argPid,              \* the arguments vid and pid
  detected                     \* the value returned, "none" before the call

svcVars == << scan_task_handle, heartbeat_task_handle, scan_task_should_stop,
              heartbeat_task_should_stop, is_device_connected, cdc_device_handle,
              device_vid, device_pid, current_device_type, current_config,
              heartbeat_enabled >>
taskVars == << scanPc, scanI, hbPc, hbCounter >>
thrVars == << pc, stack, wi, loaded, newCfg, attempt, startEnabled, displayed >>
envVars == << attached, hstate, errCount >>
histVars == << stopFromScanning, configured, sinceDisconnect, reqLog, frames, writeLog >>
bufVars == << rx_ring_buffer, rbData, rbRead, rbWrite, rbFull, pushed, accepted, readOut,
             lastRead, lastPush, lastOp, pushesOnly, lossRecorded >>
fnVars == << argVid, argPid, detected >>
vars == << svcVars, taskVars, thrVars, envVars, histVars, bufVars, fnVars >>


(***************************************************************************)
(* Helpers: control flow of a thread, the driver's view of a handle.       *)
(***************************************************************************)
Goto(t, l) == pc' = [pc EXCEPT ![t] = l]

\* call the procedure entered at `entry`, continue at the labels `after`
Call(t, entry, after) ==
  /\ pc' = [pc EXCEPT ![t] = entry]
  /\ stack' = [stack EXCEPT ![t] = after \o @]

Return(t) ==
  /\ pc' = [pc EXCEPT ![t] = Head(stack[t])]
  /\ stack' = [stack EXCEPT ![t] = Tail(@)]

IsClosed(h) == h # 0 /\ hstate[h] = "closed"

\* a heartbeat task that may still transmit

\* cdc_acm_host_close(h) as the service calls it
DriverClose(h) ==
  hstate' = IF h = 0 THEN hstate ELSE [hstate EXCEPT ![h] = "closed"]

\* esp_err_t of a transfer on h: only a transfer to an open, attached device can succeed
Outcomes(h) == IF h # 0 /\ hstate[h] = "open" THEN {"ESP_OK", "ESP_FAIL"} ELSE {"ESP_FAIL"}

FreeHbSlots == { k \in HbTasks : hbPc[k] = "dead" }
FreeHandles == { h \in Handles : hstate[h] = "unused" }
Min(S) == CHOOSE x \in S : \A y \in S : x <= y

Ended == pc["ui"] = "ended"

(***************************************************************************)
(* Initial state: the service after its constructor and begin(), the app   *)
(* after run() (START enabled, STOP disabled).                             *)
(***************************************************************************)
\* RX_RING_BUFFER_SIZE (4096 in the code, line 30), scaled down
RX_RING_BUFFER_SIZE == 4
\* bytes the receive callback is handed in one run
MaxBytes == 7
\* largest max_len passed to read
MaxReadLen == 5
\* a push exceeds the buffer size by at most this much
MaxOver == 1

InitSession ==
  /\ scan_task_handle = FALSE
  /\ heartbeat_task_handle = 0
  /\ scan_task_should_stop = FALSE
  /\ heartbeat_task_should_stop = FALSE
  /\ is_device_connected = FALSE
  /\ cdc_device_handle = 0
  /\ device_vid = 0
  /\ device_pid = 0
  /\ current_device_type = DEVICE_TYPE_UNKNOWN
  /\ current_config = DefaultConfig
  /\ heartbeat_enabled = TRUE
  /\ scanPc = "dead"
  /\ scanI = 0
  /\ hbPc = [k \in HbTasks |-> "dead"]
  /\ hbCounter = [k \in HbTasks |-> 0]
  /\ pc = [t \in Threads |-> "idle"]
  /\ stack = [t \in Threads |-> << >>]
  /\ wi = [t \in Threads |-> 0]
  /\ loaded = [t \in Threads |-> 0]
  /\ newCfg = DefaultConfig
  /\ attempt = 0
  /\ startEnabled = TRUE
  /\ displayed = "none"
  /\ attached = 0
  /\ hstate = [h \in Handles |-> "unused"]
  /\ errCount = 0
  /\ stopFromScanning = FALSE
  /\ configured = FALSE
  /\ sinceDisconnect = FALSE
  /\ reqLog = << >>
  /\ frames = << >>
  /\ writeLog = << >>

InitBuffer ==
  /\ rx_ring_buffer = TRUE
  /\ rbData = [i \in 0..(RX_RING_BUFFER_SIZE - 1) |-> 0]
  /\ rbRead = 0
  /\ rbWrite = 0
  /\ rbFull = FALSE
  /\ pushed = 0
  /\ accepted = << >>
  /\ readOut = << >>
  /\ lastRead = [max_len |-> 0, before |-> << >>, out |-> << >>,
                 pushesOnly |-> FALSE, afterPush |-> FALSE, afterDisconnect |-> FALSE]
  /\ lastPush = [data |-> << >>, before |-> << >>]
  /\ lastOp = "none"
  /\ pushesOnly = TRUE
  /\ lossRecorded = 0

\* no call of detectDeviceType outside the scan task
InitDetect ==
  /\ argVid = 0
  /\ argPid = 0
  /\ detected = "none"

Init == InitSession /\ InitBuffer /\ InitDetect

(***************************************************************************)
(* The USB stack: plugging, unplugging.                                    *)
(***************************************************************************)
\* an adapter is plugged into the host port
Plug(d) ==
  /\ ~Ended
  /\ attached = 0
  /\ attached' = d
  /\ UNCHANGED << svcVars, taskVars, thrVars, hstate, errCount, histVars, fnVars, bufVars >>

\* the adapter is pulled: every handle open on it loses its device, and the
\* driver owes each of them one CDC_ACM_HOST_DEVICE_DISCONNECTED event
Unplug ==
  /\ ~Ended
  /\ attached # 0
  /\ attached' = 0
  /\ hstate' = [h \in Handles |-> IF hstate[h] = "open" THEN "gone" ELSE hstate[h]]
  /\ UNCHANGED << svcVars, taskVars, thrVars, errCount, histVars, fnVars, bufVars >>

(***************************************************************************)
(* startHeartbeat, lines 287-306, shared by the scan task and the ui       *)
(* thread: the check (289, 294) and the creation (295-296) are two steps.  *)
(***************************************************************************)
HbCheckPasses == heartbeat_task_handle = 0 /\ is_device_connected

\* 295-302: reset the stop flag, xTaskCreate writes the handle; creation
\* fails (handle stays nullptr) when the RTOS has no free task slot.  The
\* new task begins with counter = 0 (line 626)
CreateHeartbeat ==
  /\ heartbeat_task_should_stop' = FALSE
  /\ IF FreeHbSlots # {}
       THEN /\ hbPc' = [hbPc EXCEPT ![Min(FreeHbSlots)] = "h_loop"]
            /\ hbCounter' = [hbCounter EXCEPT ![Min(FreeHbSlots)] = 0]
            /\ heartbeat_task_handle' = Min(FreeHbSlots)
       ELSE /\ hbPc' = hbPc
            /\ hbCounter' = hbCounter
            /\ heartbeat_task_handle' = 0

(***************************************************************************)
(* device_scan_task, lines 511-619.                                        *)
(***************************************************************************)
\* a scan task that opens candidates whether or not a device is connected
ScanLoopIgnoresConnected ==
  /\ scanPc = "s_loop"
  /\ IF scan_task_should_stop
       THEN scanPc' = "s_exit" /\ scanI' = scanI
       ELSE scanPc' = "s_open" /\ scanI' = 1
  /\ UNCHANGED << svcVars, hbPc, hbCounter, thrVars, envVars, histVars, fnVars, bufVars >>

\* 610-613, 515, 516, 548: the sliced sleep, the while test, the connected
\* test, the first for test; then cdc_acm_host_open is entered
ScanLoop ==
  /\ scanPc = "s_loop"
  /\ IF scan_task_should_stop
       THEN scanPc' = "s_exit" /\ scanI' = scanI
       ELSE /\ ~is_device_connected
            /\ scanPc' = "s_open"
            /\ scanI' = 1
  /\ UNCHANGED << svcVars, hbPc, hbCounter, thrVars, envVars, histVars, fnVars, bufVars >>

\* 562-574: cdc_acm_host_open returns ESP_OK and has written the handle
ScanOpenOk ==
  /\ scanPc = "s_open"
  /\ attached = scanI
  /\ FreeHandles # {}
  /\ hstate' = [hstate EXCEPT ![Min(FreeHandles)] = "open"]
  /\ cdc_device_handle' = Min(FreeHandles)
  /\ configured' = FALSE
  /\ scanPc' = "s_conn"
  /\ UNCHANGED << scan_task_handle, heartbeat_task_handle, scan_task_should_stop, heartbeat_task_should_stop, is_device_connected, device_vid, device_pid, current_device_type, current_config, heartbeat_enabled, scanI, hbPc, hbCounter, thrVars, attached, errCount, stopFromScanning, sinceDisconnect, reqLog, frames, writeLog, fnVars, bufVars >>

\* 562-563, 548: cdc_acm_host_open fails (no such device within the
\* timeout, or the open itself fails; the driver may or may not null the
\* out parameter); then the for test of the next candidate
ScanOpenFail ==
  /\ scanPc = "s_open"
  /\ cdc_device_handle' \in {cdc_device_handle, 0}
  /\ IF scanI + 1 <= NumProbed /\ ~scan_task_should_stop
       THEN scanI' = scanI + 1 /\ scanPc' = "s_open"
       ELSE scanI' = 0 /\ scanPc' = "s_loop"
  /\ UNCHANGED << scan_task_handle, heartbeat_task_handle, scan_task_should_stop, heartbeat_task_should_stop, is_device_connected, device_vid, device_pid, current_device_type, current_config, heartbeat_enabled, hbPc, hbCounter, thrVars, envVars, histVars, fnVars, bufVars >>

\* 568-575: record the identity, classify, report connected
ScanConnected ==
  /\ scanPc = "s_conn"
  /\ device_vid' = Candidate(scanI)[1]
  /\ device_pid' = Candidate(scanI)[2]
  /\ current_device_type' = detectDeviceType(Candidate(scanI)[1], Candidate(scanI)[2])
  /\ is_device_connected' = TRUE
  /\ scanI' = 0
  /\ scanPc' = "s_stab"
  /\ UNCHANGED << scan_task_handle, heartbeat_task_handle, scan_task_should_stop, heartbeat_task_should_stop, cdc_device_handle, current_config, heartbeat_enabled, hbPc, hbCounter, thrVars, envVars, histVars, fnVars, bufVars >>

\* 578-598: the two stabilisation waits; the stop flag breaks out of them,
\* else the heartbeat switch decides whether startHeartbeat is called
ScanStab ==
  /\ scanPc = "s_stab"
  /\ scanPc' = IF ~scan_task_should_stop /\ heartbeat_enabled THEN "s_hb_chk" ELSE "s_loop"
  /\ UNCHANGED << svcVars, scanI, hbPc, hbCounter, thrVars, envVars, histVars, fnVars, bufVars >>

\* 593 -> 289, 294
ScanHbCheck ==
  /\ scanPc = "s_hb_chk"
  /\ scanPc' = IF HbCheckPasses THEN "s_hb_create" ELSE "s_loop"
  /\ UNCHANGED << svcVars, scanI, hbPc, hbCounter, thrVars, envVars, histVars, fnVars, bufVars >>

\* 593 -> 295-296
ScanHbCreate ==
  /\ scanPc = "s_hb_create"
  /\ CreateHeartbeat
  /\ scanPc' = "s_loop"
  /\ UNCHANGED << scan_task_handle, scan_task_should_stop, is_device_connected, cdc_device_handle, device_vid, device_pid, current_device_type, current_config, heartbeat_enabled, scanI, thrVars, envVars, histVars, fnVars, bufVars >>

\* 617-618: clear the own handle and delete itself
ScanExit ==
  /\ scanPc = "s_exit"
  /\ scan_task_handle' = FALSE
  /\ scanPc' = "dead"
  /\ UNCHANGED << heartbeat_task_handle, scan_task_should_stop, heartbeat_task_should_stop, is_device_connected, cdc_device_handle, device_vid, device_pid, current_device_type, current_config, heartbeat_enabled, scanI, hbPc, hbCounter, thrVars, envVars, histVars, fnVars, bufVars >>

(***************************************************************************)
(* heartbeat_task, lines 622-673, one instance per task slot k.            *)
(***************************************************************************)
\* 663-665, 638, 639: sliced sleep, while test, connected-and-handle test
HbLoop(k) ==
  /\ hbPc[k] = "h_loop"
  /\ IF heartbeat_task_should_stop
       THEN hbPc' = [hbPc EXCEPT ![k] = "h_exit"]
       ELSE /\ is_device_connected /\ cdc_device_handle # 0
            /\ hbPc' = [hbPc EXCEPT ![k] = "h_tx"]
  /\ UNCHANGED << svcVars, scanPc, scanI, hbCounter, thrVars, envVars, histVars, fnVars, bufVars >>

\* a transmission failure that ends the session
HbTxFrameEscalates(k) ==
  /\ hbPc[k] = "h_tx"
  /\ Len(frames) < MaxFrames
  /\ \E r \in Outcomes(cdc_device_handle) :
       /\ frames' = Append(frames, [task |-> k, seq |-> hbCounter[k], ret |-> r])
       /\ is_device_connected' = (is_device_connected /\ r = "ESP_OK")
  /\ hbCounter' = [hbCounter EXCEPT ![k] = hbCounter[k] + 1]
  /\ hbPc' = [hbPc EXCEPT ![k] = "h_loop"]
  /\ UNCHANGED << scan_task_handle, heartbeat_task_handle, scan_task_should_stop, heartbeat_task_should_stop, cdc_device_handle, device_vid, device_pid, current_device_type, current_config, heartbeat_enabled, scanPc, scanI, thrVars, envVars, stopFromScanning, configured, sinceDisconnect, reqLog, writeLog, fnVars, bufVars >>

\* 641-658 with the frame's content: "ESP32P4 Heartbeat #<counter++> ..."
\* is transmitted; the result is only logged (the uint32_t counter cannot
\* wrap within the MaxFrames frames followed)
HbTxFrame(k) ==
  /\ hbPc[k] = "h_tx"
  /\ Len(frames) < MaxFrames
  /\ \E r \in Outcomes(cdc_device_handle) :
       frames' = Append(frames, [task |-> k, seq |-> hbCounter[k], ret |-> r])
  /\ hbCounter' = [hbCounter EXCEPT ![k] = hbCounter[k] + 1]
  /\ hbPc' = [hbPc EXCEPT ![k] = "h_loop"]
  /\ UNCHANGED << svcVars, scanPc, scanI, thrVars, envVars, stopFromScanning, configured, sinceDisconnect, reqLog, writeLog, fnVars, bufVars >>

\* 647: cdc_acm_host_data_tx_blocking on the handle as it is now (the
\* frame's content left out)
HbTx(k) ==
  /\ hbPc[k] = "h_tx"
  /\ hbPc' = [hbPc EXCEPT ![k] = "h_loop"]
  /\ UNCHANGED << svcVars, scanPc, scanI, hbCounter, thrVars, envVars, histVars, fnVars, bufVars >>

\* 669-672: clear the handle member and delete itself
HbExit(k) ==
  /\ hbPc[k] = "h_exit"
  /\ heartbeat_task_handle' = 0
  /\ hbPc' = [hbPc EXCEPT ![k] = "dead"]
  /\ UNCHANGED << scan_task_handle, scan_task_should_stop, heartbeat_task_should_stop, is_device_connected, cdc_device_handle, device_vid, device_pid, current_device_type, current_config, heartbeat_enabled, scanPc, scanI, hbCounter, thrVars, envVars, histVars, fnVars, bufVars >>

(***************************************************************************)
(* stopHeartbeat, lines 308-331, run by thread t (ui handlers, and the     *)
(* event callback in the usb context).                                     *)
(***************************************************************************)
\* 309-311: nothing to do without a task, else set the stop flag
StopHbBegin(t) ==
  /\ pc[t] = "sh_chk"
  /\ IF heartbeat_task_handle # 0
       THEN /\ heartbeat_task_should_stop' = TRUE
            /\ Goto(t, "sh_wait")
            /\ stack' = stack
       ELSE /\ Return(t)
            /\ UNCHANGED heartbeat_task_should_stop
  /\ UNCHANGED << scan_task_handle, heartbeat_task_handle, scan_task_should_stop, is_device_connected, cdc_device_handle, device_vid, device_pid, current_device_type, current_config, heartbeat_enabled, taskVars, wi, loaded, newCfg, attempt, startEnabled, displayed, envVars, histVars, fnVars, bufVars >>

\* 314-322: the wait ends (handle cleared by the task, or time is up), then
\* the test of line 322
StopHbWait(t) ==
  /\ pc[t] = "sh_wait"
  /\ IF heartbeat_task_handle # 0
       THEN /\ Goto(t, "sh_del") /\ stack' = stack
            /\ loaded' = [loaded EXCEPT ![t] = heartbeat_task_handle]
       ELSE Return(t) /\ loaded' = loaded
  /\ UNCHANGED << svcVars, taskVars, wi, newCfg, attempt, startEnabled, displayed, envVars, histVars, fnVars, bufVars >>

\* 324-325: vTaskDelete(_heartbeat_task_handle), then the member is cleared.
\* The member is read without synchronisation: the argument h is the member
\* as it is now or as it was read for the test of line 322.  With nullptr the
\* call deletes the calling task; with the handle of a task that has
\* terminated itself the call works on a freed task control block, and
\* either returns or faults.
StopHbDelete(t) ==
  /\ pc[t] = "sh_del"
  /\ \E h \in {heartbeat_task_handle, loaded[t]} :
       IF h = 0
         THEN /\ UNCHANGED << hbPc, heartbeat_task_handle, stack >>
              /\ Goto(t, "deleted")
         ELSE IF hbPc[h] # "dead"
           THEN /\ hbPc' = [hbPc EXCEPT ![h] = "dead"]
                /\ heartbeat_task_handle' = 0
                /\ Return(t)
           ELSE /\ hbPc' = hbPc
                /\ \/ heartbeat_task_handle' = 0 /\ Return(t)
                   \/ UNCHANGED << heartbeat_task_handle, stack >> /\ Goto(t, "fault")
  /\ wi' = [wi EXCEPT ![t] = 0]
  /\ loaded' = [loaded EXCEPT ![t] = 0]
  /\ UNCHANGED << scan_task_handle, scan_task_should_stop, heartbeat_task_should_stop, is_device_connected, cdc_device_handle, device_vid, device_pid, current_device_type, current_config, heartbeat_enabled, scanPc, scanI, hbCounter, newCfg, attempt, startEnabled, displayed, envVars, histVars, fnVars, bufVars >>

\* 314-321 with the slices counted: one more vTaskDelay(10 ms)
StopHbSlice(t) ==
  /\ pc[t] = "sh_wait"
  /\ wi[t] < HbWaitSlices /\ heartbeat_task_handle # 0
  /\ wi' = [wi EXCEPT ![t] = wi[t] + 1]
  /\ UNCHANGED << svcVars, taskVars, pc, stack, loaded, newCfg, attempt, startEnabled, displayed, envVars, histVars, fnVars, bufVars >>

\* 314: the loop test fails (all slices used, or the handle was cleared)
StopHbWaitEnd(t) ==
  /\ pc[t] = "sh_wait"
  /\ ~(wi[t] < HbWaitSlices /\ heartbeat_task_handle # 0)
  /\ Goto(t, "sh_if")
  /\ UNCHANGED << svcVars, taskVars, stack, wi, loaded, newCfg, attempt, startEnabled, displayed, envVars, histVars, fnVars, bufVars >>

\* 322: the handle is read again
StopHbIf(t) ==
  /\ pc[t] = "sh_if"
  /\ IF heartbeat_task_handle # 0
       THEN /\ Goto(t, "sh_del") /\ UNCHANGED << stack, wi >>
            /\ loaded' = [loaded EXCEPT ![t] = heartbeat_task_handle]
       ELSE Return(t) /\ wi' = [wi EXCEPT ![t] = 0] /\ loaded' = loaded
  /\ UNCHANGED << svcVars, taskVars, newCfg, attempt, startEnabled, displayed, envVars, histVars, fnVars, bufVars >>

(***************************************************************************)
(* stopScan, lines 237-260 (ui thread only).                               *)
(***************************************************************************)
\* 238-240; the history records whether the flag is set while Scanning
StopScanBegin ==
  /\ pc["ui"] = "ss_chk"
  /\ IF scan_task_handle
       THEN /\ scan_task_should_stop' = TRUE
            /\ stopFromScanning' = (scanPc # "dead" /\ cdc_device_handle = 0 /\ ~is_device_connected)
            /\ Goto("ui", "ss_wait")
            /\ stack' = stack
       ELSE /\ Return("ui")
            /\ UNCHANGED << scan_task_should_stop, stopFromScanning >>
  /\ UNCHANGED << scan_task_handle, heartbeat_task_handle, heartbeat_task_should_stop, is_device_connected, cdc_device_handle, device_vid, device_pid, current_device_type, current_config, heartbeat_enabled, taskVars, wi, loaded, newCfg, attempt, startEnabled, displayed, envVars, configured, sinceDisconnect, reqLog, frames, writeLog, fnVars, bufVars >>

\* 243-251
StopScanWait ==
  /\ pc["ui"] = "ss_wait"
  /\ IF scan_task_handle
       THEN Goto("ui", "ss_del") /\ stack' = stack
       ELSE Return("ui")
  /\ UNCHANGED << svcVars, taskVars, wi, loaded, newCfg, attempt, startEnabled, displayed, envVars, histVars, fnVars, bufVars >>

\* 253-254: vTaskDelete(_scan_task_handle), then the member is cleared.
\* The member is read without synchronisation.  When the task has exited
\* since the test of line 251, the argument is the member as it is now
\* (nullptr: the call deletes the calling task) or as it was read for that
\* test (the handle of a terminated task: the call works on a freed task
\* control block, and either returns or faults).
StopScanDelete ==
  /\ pc["ui"] = "ss_del"
  /\ IF scan_task_handle
       THEN /\ scanPc' = "dead" /\ scanI' = 0
            /\ scan_task_handle' = FALSE
            /\ Return("ui")
       ELSE /\ UNCHANGED << scanPc, scanI, scan_task_handle >>
            /\ \/ stack' = stack /\ Goto("ui", "deleted")
               \/ Return("ui")
               \/ stack' = stack /\ Goto("ui", "fault")
  /\ wi' = [wi EXCEPT !["ui"] = 0]
  /\ UNCHANGED << heartbeat_task_handle, scan_task_should_stop, heartbeat_task_should_stop, is_device_connected, cdc_device_handle, device_vid, device_pid, current_device_type, current_config, heartbeat_enabled, hbPc, hbCounter, loaded, newCfg, attempt, startEnabled, displayed, envVars, histVars, fnVars, bufVars >>

\* 243-249 with the slices counted: one more vTaskDelay(10 ms)
StopScanSlice ==
  /\ pc["ui"] = "ss_wait"
  /\ wi["ui"] < ScanWaitSlices /\ scan_task_handle
  /\ wi' = [wi EXCEPT !["ui"] = wi["ui"] + 1]
  /\ UNCHANGED << svcVars, taskVars, pc, stack, loaded, newCfg, attempt, startEnabled, displayed, envVars, histVars, fnVars, bufVars >>

\* 243: the loop test fails (all slices used, or the handle was cleared)
StopScanWaitEnd ==
  /\ pc["ui"] = "ss_wait"
  /\ ~(wi["ui"] < ScanWaitSlices /\ scan_task_handle)
  /\ Goto("ui", "ss_if")
  /\ UNCHANGED << svcVars, taskVars, stack, wi, loaded, newCfg, attempt, startEnabled, displayed, envVars, histVars, fnVars, bufVars >>

\* 251: the handle is read again
StopScanIf ==
  /\ pc["ui"] = "ss_if"
  /\ IF scan_task_handle
       THEN Goto("ui", "ss_del") /\ UNCHANGED << stack, wi >>
       ELSE Return("ui") /\ wi' = [wi EXCEPT !["ui"] = 0]
  /\ UNCHANGED << svcVars, taskVars, loaded, newCfg, attempt, startEnabled, displayed, envVars, histVars, fnVars, bufVars >>

(***************************************************************************)
(* forceDisconnectDevice, lines 263-284: stopHeartbeat (267) is the call   *)
(* that precedes these steps.                                              *)
(***************************************************************************)
\* 270-272: close the handle if there is one
ForceDiscClose ==
  /\ pc["ui"] = "fd_close"
  /\ DriverClose(cdc_device_handle)
  /\ Goto("ui", "fd_clear")
  /\ UNCHANGED << svcVars, taskVars, stack, wi, loaded, newCfg, attempt, startEnabled, displayed, attached, errCount, histVars, fnVars, bufVars >>

\* a forceDisconnectDevice that also empties the receive buffer
ForceDiscClearDropsBuffer ==
  /\ pc["ui"] = "fd_clear"
  /\ cdc_device_handle' = 0
  /\ is_device_connected' = FALSE
  /\ device_vid' = 0
  /\ device_pid' = 0
  /\ current_device_type' = DEVICE_TYPE_UNKNOWN
  /\ rbRead' = rbWrite
  /\ rbFull' = FALSE
  /\ Return("ui")
  /\ UNCHANGED << scan_task_handle, heartbeat_task_handle, scan_task_should_stop, heartbeat_task_should_stop, current_config, heartbeat_enabled, taskVars, wi, loaded, newCfg, attempt, startEnabled, displayed, envVars, histVars, fnVars, rx_ring_buffer, rbData, rbWrite, pushed, accepted, readOut, lastRead, lastPush, lastOp, pushesOnly, lossRecorded >>

\* a forceDisconnectDevice that also puts the saved configuration back to
\* the constructor's default
ForceDiscClearResetsConfig ==
  /\ pc["ui"] = "fd_clear"
  /\ cdc_device_handle' = 0
  /\ is_device_connected' = FALSE
  /\ device_vid' = 0
  /\ device_pid' = 0
  /\ current_device_type' = DEVICE_TYPE_UNKNOWN
  /\ current_config' = DefaultConfig
  /\ Return("ui")
  /\ UNCHANGED << scan_task_handle, heartbeat_task_handle, scan_task_should_stop, heartbeat_task_should_stop, heartbeat_enabled, taskVars, wi, loaded, newCfg, attempt, startEnabled, displayed, envVars, histVars, fnVars, bufVars >>

\* 273-281
ForceDiscClear ==
  /\ pc["ui"] = "fd_clear"
  /\ cdc_device_handle' = 0
  /\ is_device_connected' = FALSE
  /\ device_vid' = 0
  /\ device_pid' = 0
  /\ current_device_type' = DEVICE_TYPE_UNKNOWN
  /\ Return("ui")
  /\ UNCHANGED << scan_task_handle, heartbeat_task_handle, scan_task_should_stop, heartbeat_task_should_stop, current_config, heartbeat_enabled, taskVars, wi, loaded, newCfg, attempt, startEnabled, displayed, envVars, histVars, fnVars, bufVars >>

(***************************************************************************)
(* end, lines 199-218: stopScan and stopHeartbeat (200, 201) precede.      *)
(***************************************************************************)
\* 202-203
EndClose ==
  /\ pc["ui"] = "en_close"
  /\ DriverClose(cdc_device_handle)
  /\ Goto("ui", "en_fin")
  /\ UNCHANGED << svcVars, taskVars, stack, wi, loaded, newCfg, attempt, startEnabled, displayed, attached, errCount, histVars, fnVars, bufVars >>

\* 204-217: handle nulled, drivers uninstalled, the ring buffer deleted,
\* connected flag cleared
EndFinish ==
  /\ pc["ui"] = "en_fin"
  /\ cdc_device_handle' = 0
  /\ rx_ring_buffer' = FALSE
  /\ is_device_connected' = FALSE
  /\ Goto("ui", "ended")
  /\ UNCHANGED << scan_task_handle, heartbeat_task_handle, scan_task_should_stop, heartbeat_task_should_stop, device_vid, device_pid, current_device_type, current_config, heartbeat_enabled, taskVars, stack, wi, loaded, newCfg, attempt, startEnabled, displayed, envVars, histVars, fnVars, rbData, rbRead, rbWrite, rbFull, pushed, accepted, readOut, lastRead, lastPush, lastOp, pushesOnly, lossRecorded >>

(***************************************************************************)
(* USB_CDC handlers, run by the ui thread one at a time.                   *)
(***************************************************************************)
\* startScan, lines 220-235
StartScan ==
  IF ~scan_task_handle
    THEN /\ scan_task_should_stop' = FALSE
         /\ scanPc' = "s_loop"
         /\ scanI' = 0
         /\ scan_task_handle' = TRUE
    ELSE UNCHANGED << scan_task_should_stop, scanPc, scanI, scan_task_handle >>

\* onButtonStartClicked, USB_CDC.cpp 267-303
UiStart ==
  /\ pc["ui"] = "idle"
  /\ startEnabled
  /\ startEnabled' = FALSE
  /\ sinceDisconnect' = FALSE
  /\ IF is_device_connected
       THEN /\ UNCHANGED << scan_task_should_stop, scanPc, scanI, scan_task_handle >>
            /\ IF heartbeat_enabled
                 THEN Call("ui", "sb_chk", << "idle" >>)
                 ELSE UNCHANGED << pc, stack >>
       ELSE /\ StartScan
            /\ UNCHANGED << pc, stack >>
  /\ UNCHANGED << heartbeat_task_handle, heartbeat_task_should_stop, is_device_connected, cdc_device_handle, device_vid, device_pid, current_device_type, current_config, heartbeat_enabled, hbPc, hbCounter, wi, loaded, newCfg, attempt, displayed, envVars, stopFromScanning, configured, reqLog, frames, writeLog, fnVars, bufVars >>

\* startHeartbeat 289, 294 on the ui thread
UiHbCheck ==
  /\ pc["ui"] = "sb_chk"
  /\ IF HbCheckPasses
       THEN Goto("ui", "sb_create") /\ stack' = stack
       ELSE Return("ui")
  /\ UNCHANGED << svcVars, taskVars, wi, loaded, newCfg, attempt, startEnabled, displayed, envVars, histVars, fnVars, bufVars >>

\* startHeartbeat 295-296 on the ui thread
UiHbCreate ==
  /\ pc["ui"] = "sb_create"
  /\ CreateHeartbeat
  /\ Return("ui")
  /\ UNCHANGED << scan_task_handle, scan_task_should_stop, is_device_connected, cdc_device_handle, device_vid, device_pid, current_device_type, current_config, heartbeat_enabled, scanPc, scanI, wi, loaded, newCfg, attempt, startEnabled, displayed, envVars, histVars, fnVars, bufVars >>

\* onButtonStopClicked, USB_CDC.cpp 305-333: stopScan, stopHeartbeat,
\* forceDisconnectDevice (which begins with stopHeartbeat)
UiStop ==
  /\ pc["ui"] = "idle"
  /\ ~startEnabled
  /\ Call("ui", "ss_chk", << "sh_chk", "sh_chk", "fd_close", "st_done" >>)
  /\ UNCHANGED << svcVars, taskVars, wi, loaded, newCfg, attempt, startEnabled, displayed, envVars, histVars, fnVars, bufVars >>

\* USB_CDC.cpp 323-332: the handler's own bookkeeping after the three calls
UiStopDone ==
  /\ pc["ui"] = "st_done"
  /\ startEnabled' = TRUE
  /\ stopFromScanning' = FALSE
  /\ Goto("ui", "idle")
  /\ UNCHANGED << svcVars, taskVars, stack, wi, loaded, newCfg, attempt, displayed, envVars, configured, sinceDisconnect, reqLog, frames, writeLog, fnVars, bufVars >>

\* onSwitchHeartbeatChanged / updateHeartbeatState, USB_CDC.cpp 682-718
UiHbSwitch ==
  /\ pc["ui"] = "idle"
  /\ heartbeat_enabled' = ~heartbeat_enabled
  /\ IF is_device_connected
       THEN Call("ui", IF heartbeat_enabled' THEN "sb_chk" ELSE "sh_chk", << "idle" >>)
       ELSE UNCHANGED << pc, stack >>
  /\ UNCHANGED << scan_task_handle, heartbeat_task_handle, scan_task_should_stop, heartbeat_task_should_stop, is_device_connected, cdc_device_handle, device_vid, device_pid, current_device_type, current_config, taskVars, wi, loaded, newCfg, attempt, startEnabled, displayed, envVars, histVars, fnVars, bufVars >>

\* a write that transmits whatever the state of the session
UiWriteCallUnguarded(len) ==
  /\ pc["ui"] = "idle"
  /\ Len(writeLog) < MaxWrites
  /\ writeLog' = Append(writeLog, [len |-> len, sent |-> TRUE])
  /\ Goto("ui", "w_tx")
  /\ UNCHANGED << svcVars, taskVars, stack, wi, loaded, newCfg, attempt, startEnabled, displayed, envVars, stopFromScanning, configured, sinceDisconnect, reqLog, frames, fnVars, bufVars >>

\* write(data, len), lines 766-770, as a call: with the guard of line 767
\* false it returns at once (it returns void, and logs nothing)
UiWriteCall(len) ==
  /\ pc["ui"] = "idle"
  /\ Len(writeLog) < MaxWrites
  /\ LET guard == is_device_connected /\ cdc_device_handle # 0 /\ len > 0 IN
       /\ writeLog' = Append(writeLog, [len |-> len, sent |-> guard])
       /\ IF guard THEN Goto("ui", "w_tx") ELSE pc' = pc
  /\ UNCHANGED << svcVars, taskVars, stack, wi, loaded, newCfg, attempt, startEnabled, displayed, envVars, stopFromScanning, configured, sinceDisconnect, reqLog, frames, fnVars, bufVars >>

\* write(data, len), line 767, called on the application thread: the guard
\* (the calls that pass it)
UiWrite ==
  /\ pc["ui"] = "idle"
  /\ is_device_connected /\ cdc_device_handle # 0
  /\ Goto("ui", "w_tx")
  /\ UNCHANGED << svcVars, taskVars, stack, wi, loaded, newCfg, attempt, startEnabled, displayed, envVars, histVars, fnVars, bufVars >>

\* write, line 768: the transmit on the handle as it is now
UiWriteTx ==
  /\ pc["ui"] = "w_tx"
  /\ Goto("ui", "idle")
  /\ UNCHANGED << svcVars, taskVars, stack, wi, loaded, newCfg, attempt, startEnabled, displayed, envVars, histVars, fnVars, bufVars >>

\* end(), called by the destructor and by a failed begin()
UiEnd ==
  /\ pc["ui"] = "idle"
  /\ Call("ui", "ss_chk", << "sh_chk", "en_close" >>)
  /\ UNCHANGED << svcVars, taskVars, wi, loaded, newCfg, attempt, startEnabled, displayed, envVars, histVars, fnVars, bufVars >>

(***************************************************************************)
(* onButtonApplyClicked (USB_CDC.cpp 408-505) and the Configurator.        *)
(***************************************************************************)
\* 413-428, 482-501: read the dropdowns; not connected: only save and say so
UiApply(cfg) ==
  /\ pc["ui"] = "idle"
  /\ newCfg' = cfg
  /\ IF is_device_connected
       THEN /\ attempt' = 0
            /\ Goto("ui", "ap_loop")
            /\ UNCHANGED << current_config, displayed >>
       ELSE /\ current_config' = cfg
            /\ displayed' = "Saved"
            /\ UNCHANGED << attempt, pc >>
  /\ UNCHANGED << scan_task_handle, heartbeat_task_handle, scan_task_should_stop, heartbeat_task_should_stop, is_device_connected, cdc_device_handle, device_vid, device_pid, current_device_type, heartbeat_enabled, taskVars, stack, wi, loaded, startEnabled, envVars, histVars, fnVars, bufVars >>

\* 452-481: three configureSerialPort attempts (the call returns nothing),
\* then setCurrentConfig and the message "[Settings] Applied: ..."
UiApplyLoop ==
  /\ pc["ui"] = "ap_loop"
  /\ reqLog' = << >>
  /\ IF attempt < 3
       THEN /\ attempt' = attempt + 1
            /\ Call("ui", "cf_chk", << "ap_loop" >>)
            /\ UNCHANGED << current_config, displayed >>
       ELSE /\ attempt' = 0
            /\ current_config' = newCfg
            /\ displayed' = "Applied"
            /\ Goto("ui", "idle")
            /\ stack' = stack
  /\ UNCHANGED << scan_task_handle, heartbeat_task_handle, scan_task_should_stop, heartbeat_task_should_stop, is_device_connected, cdc_device_handle, device_vid, device_pid, current_device_type, heartbeat_enabled, taskVars, wi, loaded, newCfg, startEnabled, envVars, stopFromScanning, configured, sinceDisconnect, frames, writeLog, fnVars, bufVars >>

\* cdc_acm_host_send_custom_request(handle, ., bRequest, wValue, wIndex, ...) returned r
Sent(bRequest, wValue, wIndex, r) ==
  /\ reqLog' = Append(reqLog, [bRequest |-> bRequest, wValue |-> wValue,
                               wIndex |-> wIndex, ret |-> r])
  /\ configured' = (configured \/ cdc_device_handle # 0)

\* a configureSerialPort without the guard of line 398
CfgCheckUnguarded ==
  /\ pc["ui"] = "cf_chk"
  /\ Goto("ui", IF current_device_type = DEVICE_TYPE_CH340 THEN "ch_chk" ELSE "cf_x1")
  /\ UNCHANGED << svcVars, taskVars, stack, wi, loaded, newCfg, attempt, startEnabled, displayed, envVars, histVars, fnVars, bufVars >>

\* configureSerialPort(config) 398-422: the guard, then the CH340 branch
\* (after configureCH340SerialPort only a warning is logged, 418-421)
CfgCheck ==
  /\ pc["ui"] = "cf_chk"
  /\ IF ~is_device_connected \/ cdc_device_handle = 0
       THEN Return("ui")
       ELSE /\ Goto("ui", IF current_device_type = DEVICE_TYPE_CH340 THEN "ch_chk" ELSE "cf_x1")
            /\ stack' = stack
  /\ UNCHANGED << svcVars, taskVars, wi, loaded, newCfg, attempt, startEnabled, displayed, envVars, histVars, fnVars, bufVars >>

\* 435-445, 497-500: SET_LINE_CODING; on failure nothing else is sent
CfgSetLineCoding ==
  /\ pc["ui"] = "cf_x1"
  /\ \E r \in Outcomes(cdc_device_handle) :
       /\ Sent(SET_LINE_CODING, 0, 0, r)
       /\ IF r = "ESP_OK"
            THEN Goto("ui", "cf_x2") /\ stack' = stack
            ELSE Return("ui")
  /\ UNCHANGED << svcVars, taskVars, wi, loaded, newCfg, attempt, startEnabled, displayed, envVars, stopFromScanning, sinceDisconnect, frames, writeLog, fnVars, bufVars >>

\* a GET_LINE_CODING followed by SET_CONTROL_LINE_STATE for every family
CfgGetLineCodingAnyFamily ==
  /\ pc["ui"] = "cf_x2"
  /\ \E r \in Outcomes(cdc_device_handle) : Sent(GET_LINE_CODING, 0, 0, r)
  /\ Goto("ui", "cf_x3")
  /\ UNCHANGED << svcVars, taskVars, stack, wi, loaded, newCfg, attempt, startEnabled, displayed, envVars, stopFromScanning, sinceDisconnect, frames, writeLog, fnVars, bufVars >>

\* 454-480: GET_LINE_CODING (only logged), then the family test of line 480
CfgGetLineCoding ==
  /\ pc["ui"] = "cf_x2"
  /\ \E r \in Outcomes(cdc_device_handle) : Sent(GET_LINE_CODING, 0, 0, r)
  /\ IF current_device_type \in {DEVICE_TYPE_CP210X, DEVICE_TYPE_PL2303}
       THEN Goto("ui", "cf_x3") /\ stack' = stack
       ELSE Return("ui")
  /\ UNCHANGED << svcVars, taskVars, wi, loaded, newCfg, attempt, startEnabled, displayed, envVars, stopFromScanning, sinceDisconnect, frames, writeLog, fnVars, bufVars >>

\* 481-495: SET_CONTROL_LINE_STATE with wValue 0x03 (DTR | RTS)
CfgSetControlLine ==
  /\ pc["ui"] = "cf_x3"
  /\ \E r \in Outcomes(cdc_device_handle) : Sent(SET_CONTROL_LINE_STATE, 3, 0, r)
  /\ Return("ui")
  /\ UNCHANGED << svcVars, taskVars, wi, loaded, newCfg, attempt, startEnabled, displayed, envVars, stopFromScanning, sinceDisconnect, frames, writeLog, fnVars, bufVars >>

\* a baud_reg switch whose default leaves baud_reg at its initial 0
Ch340BaudRegNoDefault(baud_rate) ==
  CASE baud_rate = 2400 -> 55553
    [] baud_rate = 4800 -> 25602
    [] baud_rate = 9600 -> 45570
    [] baud_rate = 19200 -> 55554
    [] baud_rate = 38400 -> 25603
    [] baud_rate = 57600 -> 38915
    [] baud_rate = 115200 -> 52227
    [] baud_rate = 230400 -> 58883
    [] baud_rate = 460800 -> 62211
    [] baud_rate = 921600 -> 63748
    [] OTHER -> 0

\* 900-913: baud_reg (0xD901, 0x6402, 0xB202, 0xD902, 0x6403, 0x9803, 0xCC03,
\* 0xE603, 0xF303, 0xF904; default 0xCC03)
Ch340BaudReg(baud_rate) ==
  CASE baud_rate = 2400 -> 55553
    [] baud_rate = 4800 -> 25602
    [] baud_rate = 9600 -> 45570
    [] baud_rate = 19200 -> 55554
    [] baud_rate = 38400 -> 25603
    [] baud_rate = 57600 -> 38915
    [] baud_rate = 115200 -> 52227
    [] baud_rate = 230400 -> 58883
    [] baud_rate = 460800 -> 62211
    [] baud_rate = 921600 -> 63748
    [] OTHER -> 52227

\* configureCH340SerialPort 888-891
Ch340Check ==
  /\ pc["ui"] = "ch_chk"
  /\ IF ~is_device_connected \/ cdc_device_handle = 0
       THEN Return("ui")
       ELSE Goto("ui", "ch_x1") /\ stack' = stack
  /\ UNCHANGED << svcVars, taskVars, wi, loaded, newCfg, attempt, startEnabled, displayed, envVars, histVars, fnVars, bufVars >>

\* a vendor request whose failure ends configureCH340SerialPort
Ch340RequestStopsOnFailure(from, to, bRequest, wValue, wIndex) ==
  /\ pc["ui"] = from
  /\ \E r \in Outcomes(cdc_device_handle) :
       /\ Sent(bRequest, wValue, wIndex, r)
       /\ IF to = "return" \/ r # "ESP_OK"
            THEN Return("ui")
            ELSE Goto("ui", to) /\ stack' = stack
  /\ UNCHANGED << svcVars, taskVars, wi, loaded, newCfg, attempt, startEnabled, displayed, envVars, stopFromScanning, sinceDisconnect, frames, writeLog, fnVars, bufVars >>

\* 915-929, 933-947, 951-965: a vendor request; its result is only logged
Ch340Request(from, to, bRequest, wValue, wIndex) ==
  /\ pc["ui"] = from
  /\ \E r \in Outcomes(cdc_device_handle) : Sent(bRequest, wValue, wIndex, r)
  /\ IF to = "return"
       THEN Return("ui")
       ELSE Goto("ui", to) /\ stack' = stack
  /\ UNCHANGED << svcVars, taskVars, wi, loaded, newCfg, attempt, startEnabled, displayed, envVars, stopFromScanning, sinceDisconnect, frames, writeLog, fnVars, bufVars >>

\* 0x9A with wValue 0x1312 and wIndex baud_reg, 0x9B with wValue 0x0008,
\* 0xA4 with wValue 0xDF20; baud_rate is the config.baud_rate of line 416
Ch340SetBaud ==
  Ch340Request("ch_x1", "ch_x2", CH340_SET_BAUD_RATE, 4882, Ch340BaudReg(newCfg.baud_rate))
Ch340SetFormat == Ch340Request("ch_x2", "ch_x3", CH340_SET_DATA_FORMAT, 8, 0)
Ch340SetLines == Ch340Request("ch_x3", "return", CH340_SET_CONTROL_LINES, 57120, 0)

(***************************************************************************)
(* device_event_callback, lines 677-723, in the usb context.               *)
(***************************************************************************)
\* 681-688: DISCONNECTED for handle h; the handle test, then stopHeartbeat
EvDisconnected(h) ==
  /\ ~Ended
  /\ pc["usb"] = "idle"
  /\ hstate[h] = "gone"
  /\ hstate' = [hstate EXCEPT ![h] = "notified"]
  /\ IF h = cdc_device_handle
       THEN Call("usb", "sh_chk", << "ev_close" >>)
       ELSE UNCHANGED << pc, stack >>
  /\ UNCHANGED << svcVars, taskVars, wi, loaded, newCfg, attempt, startEnabled, displayed, attached, errCount, histVars, fnVars, bufVars >>

\* 691-693
EvClose ==
  /\ pc["usb"] = "ev_close"
  /\ DriverClose(cdc_device_handle)
  /\ Goto("usb", "ev_null")
  /\ UNCHANGED << svcVars, taskVars, stack, wi, loaded, newCfg, attempt, startEnabled, displayed, attached, errCount, histVars, fnVars, bufVars >>

\* 696-697
EvClearHandle ==
  /\ pc["usb"] = "ev_null"
  /\ cdc_device_handle' = 0
  /\ is_device_connected' = FALSE
  /\ Goto("usb", "ev_id")
  /\ UNCHANGED << scan_task_handle, heartbeat_task_handle, scan_task_should_stop, heartbeat_task_should_stop, device_vid, device_pid, current_device_type, current_config, heartbeat_enabled, taskVars, stack, wi, loaded, newCfg, attempt, startEnabled, displayed, envVars, histVars, fnVars, bufVars >>

\* a disconnect branch that also asked the scan task to stop
EvClearIdentityStopsScan ==
  /\ pc["usb"] = "ev_id"
  /\ device_vid' = 0
  /\ device_pid' = 0
  /\ sinceDisconnect' = TRUE
  /\ scan_task_should_stop' = TRUE
  /\ Goto("usb", "idle")
  /\ UNCHANGED << scan_task_handle, heartbeat_task_handle, heartbeat_task_should_stop, is_device_connected, cdc_device_handle, current_device_type, current_config, heartbeat_enabled, taskVars, stack, wi, loaded, newCfg, attempt, startEnabled, displayed, envVars, stopFromScanning, configured, reqLog, frames, writeLog, fnVars, bufVars >>

\* 698-703: identity cleared, the callback returns
EvClearIdentity ==
  /\ pc["usb"] = "ev_id"
  /\ device_vid' = 0
  /\ device_pid' = 0
  /\ sinceDisconnect' = TRUE
  /\ Goto("usb", "idle")
  /\ UNCHANGED << scan_task_handle, heartbeat_task_handle, scan_task_should_stop, heartbeat_task_should_stop, is_device_connected, cdc_device_handle, current_device_type, current_config, heartbeat_enabled, taskVars, stack, wi, loaded, newCfg, attempt, startEnabled, displayed, envVars, stopFromScanning, configured, reqLog, frames, writeLog, fnVars, bufVars >>

\* 704-709: ERROR for an open handle h; stopHeartbeat
EvError(h) ==
  /\ ~Ended
  /\ pc["usb"] = "idle"
  /\ hstate[h] \in {"open", "gone", "notified"}
  /\ errCount < MaxErrors
  /\ errCount' = errCount + 1
  /\ Call("usb", "sh_chk", << "er_conn" >>)
  /\ UNCHANGED << svcVars, taskVars, wi, loaded, newCfg, attempt, startEnabled, displayed, attached, hstate, histVars, fnVars, bufVars >>

\* 710-711: connected flag cleared, the callback returns
EvErrorClearConnected ==
  /\ pc["usb"] = "er_conn"
  /\ is_device_connected' = FALSE
  /\ Goto("usb", "idle")
  /\ UNCHANGED << scan_task_handle, heartbeat_task_handle, scan_task_should_stop, heartbeat_task_should_stop, cdc_device_handle, device_vid, device_pid, current_device_type, current_config, heartbeat_enabled, taskVars, stack, wi, loaded, newCfg, attempt, startEnabled, displayed, envVars, histVars, fnVars, bufVars >>

\* USB_CDC::close, USB_CDC.cpp 124-165: stopHeartbeat, stopScan,
\* forceDisconnectDevice; the next run() enables START again (190-191)
UiClose ==
  /\ pc["ui"] = "idle"
  /\ Call("ui", "sh_chk", << "ss_chk", "sh_chk", "fd_close", "st_done" >>)
  /\ UNCHANGED << svcVars, taskVars, wi, loaded, newCfg, attempt, startEnabled, displayed, envVars, histVars, fnVars, bufVars >>

(***************************************************************************)
(* The session specification.                                              *)
(***************************************************************************)
Next ==
  \/ \E d \in Devices : Plug(d)
  \/ Unplug
  \/ ScanLoop \/ ScanOpenOk \/ ScanOpenFail \/ ScanConnected
  \/ ScanStab \/ ScanHbCheck \/ ScanHbCreate \/ ScanExit
  \/ \E k \in HbTasks : HbLoop(k) \/ HbTx(k) \/ HbExit(k)
  \/ \E t \in Threads : StopHbBegin(t) \/ StopHbWait(t) \/ StopHbDelete(t)
  \/ StopScanBegin \/ StopScanWait \/ StopScanDelete
  \/ ForceDiscClose \/ ForceDiscClear
  \/ EndClose \/ EndFinish
  \/ UiStart \/ UiHbCheck \/ UiHbCreate \/ UiStop \/ UiStopDone \/ UiHbSwitch
  \/ UiWrite \/ UiWriteTx \/ UiEnd \/ UiClose
  \/ \E h \in Handles : EvDisconnected(h) \/ EvError(h)
  \/ EvClose \/ EvClearHandle \/ EvClearIdentity \/ EvErrorClearConnected

Spec == Init /\ [][Next]_vars

\* the session with the settings screen's Apply button, without write, the
\* error event, end and the app's close
NextCfg ==
  \/ \E d \in Devices : Plug(d)
  \/ Unplug
  \/ ScanLoop \/ ScanOpenOk \/ ScanOpenFail \/ ScanConnected
  \/ ScanStab \/ ScanHbCheck \/ ScanHbCreate \/ ScanExit
  \/ \E k \in HbTasks : HbLoop(k) \/ HbTx(k) \/ HbExit(k)
  \/ \E t \in Threads : StopHbBegin(t) \/ StopHbWait(t) \/ StopHbDelete(t)
  \/ StopScanBegin \/ StopScanWait \/ StopScanDelete
  \/ ForceDiscClose \/ ForceDiscClear
  \/ UiStart \/ UiHbCheck \/ UiHbCreate \/ UiStop \/ UiStopDone \/ UiHbSwitch
  \/ \E h \in Handles : EvDisconnected(h)
  \/ EvClose \/ EvClearHandle \/ EvClearIdentity
  \/ \E cfg \in Configs : UiApply(cfg)
  \/ UiApplyLoop \/ CfgCheck \/ CfgSetLineCoding \/ CfgGetLineCoding
  \/ CfgSetControlLine \/ Ch340Check \/ Ch340SetBaud \/ Ch340SetFormat \/ Ch340SetLines

SpecCfg == Init /\ [][NextCfg]_vars

\* the session with the slices of the two cooperative waits counted,
\* without write, the error event, end and the app's close
NextStop ==
  \/ \E d \in Devices : Plug(d)
  \/ Unplug
  \/ ScanLoop \/ ScanOpenOk \/ ScanOpenFail \/ ScanConnected
  \/ ScanStab \/ ScanHbCheck \/ ScanHbCreate \/ ScanExit
  \/ \E k \in HbTasks : HbLoop(k) \/ HbTx(k) \/ HbExit(k)
  \/ \E t \in Threads : \/ StopHbBegin(t) \/ StopHbSlice(t) \/ StopHbWaitEnd(t)
                        \/ StopHbIf(t) \/ StopHbDelete(t)
  \/ StopScanBegin \/ StopScanSlice \/ StopScanWaitEnd \/ StopScanIf \/ StopScanDelete
  \/ ForceDiscClose \/ ForceDiscClear
  \/ UiStart \/ UiHbCheck \/ UiHbCreate \/ UiStop \/ UiStopDone \/ UiHbSwitch
  \/ \E h \in Handles : EvDisconnected(h)
  \/ EvClose \/ EvClearHandle \/ EvClearIdentity

SpecStop == Init /\ [][NextStop]_vars

(***************************************************************************)
(* The Apply handler and the Configurator on a connected session, for an   *)
(* adapter of each chipset family of the candidate table.                  *)
(***************************************************************************)
Families == 1..Len(ScanOrder)

\* the session after START with the heartbeat switched off, candidate d
\* plugged in and opened by the scan task (lines 562-598), which now sleeps
\* in its loop (610-612)
ConnectedSession(d) ==
  /\ scan_task_handle = TRUE
  /\ heartbeat_task_handle = 0
  /\ scan_task_should_stop = FALSE
  /\ heartbeat_task_should_stop = FALSE
  /\ is_device_connected = TRUE
  /\ cdc_device_handle = 1
  /\ device_vid = Candidate(d)[1]
  /\ device_pid = Candidate(d)[2]
  /\ current_device_type = detectDeviceType(Candidate(d)[1], Candidate(d)[2])
  /\ current_config = DefaultConfig
  /\ heartbeat_enabled = FALSE
  /\ scanPc = "s_loop"
  /\ scanI = 0
  /\ hbPc = [k \in HbTasks |-> "dead"]
  /\ hbCounter = [k \in HbTasks |-> 0]
  /\ pc = [t \in Threads |-> "idle"]
  /\ stack = [t \in Threads |-> << >>]
  /\ wi = [t \in Threads |-> 0]
  /\ loaded = [t \in Threads |-> 0]
  /\ newCfg = DefaultConfig
  /\ attempt = 0
  /\ startEnabled = FALSE
  /\ displayed = "none"
  /\ attached = d
  /\ hstate = [h \in Handles |-> IF h = 1 THEN "open" ELSE "unused"]
  /\ errCount = 0
  /\ stopFromScanning = FALSE
  /\ configured = FALSE
  /\ sinceDisconnect = FALSE
  /\ reqLog = << >>
  /\ frames = << >>
  /\ writeLog = << >>

\* the baud rates of the settings dropdown (USB_CDC.cpp 413)
baud_rates == << 4800, 9600, 19200, 38400, 57600, 115200, 230400, 460800, 1500000 >>

\* the configurations Apply is clicked with: Configs, and 8N1 at every baud rate
ApplyConfigs ==
  Configs \cup { [baud_rate |-> baud_rates[i], data_bits |-> 8, parity |-> 0, stop_bits |-> 0] :
                   i \in 1..Len(baud_rates) }

InitApply == (\E d \in Families : ConnectedSession(d)) /\ InitBuffer /\ InitDetect

NextApply ==
  \/ Unplug
  \/ \E cfg \in ApplyConfigs : UiApply(cfg)
  \/ UiApplyLoop \/ CfgCheck \/ CfgSetLineCoding \/ CfgGetLineCoding
  \/ CfgSetControlLine \/ Ch340Check \/ Ch340SetBaud \/ Ch340SetFormat \/ Ch340SetLines

SpecApply == InitApply /\ [][NextApply]_vars

(***************************************************************************)
(* The receive ring buffer: a FreeRTOS byte buffer (RINGBUF_TYPE_BYTEBUF)  *)
(* of RX_RING_BUFFER_SIZE bytes, created in begin (line 163), filled by    *)
(* data_received_callback (726-731) and drained by read (733-744).         *)
(***************************************************************************)
Pos == 0..(RX_RING_BUFFER_SIZE - 1)

\* bytes stored
ItemsWaiting ==
  IF rbFull THEN RX_RING_BUFFER_SIZE
  ELSE (rbWrite - rbRead + RX_RING_BUFFER_SIZE) % RX_RING_BUFFER_SIZE

FreeSize == RX_RING_BUFFER_SIZE - ItemsWaiting

\* the stored bytes, oldest first
Content == [k \in 1..ItemsWaiting |-> rbData[(rbRead + k - 1) % RX_RING_BUFFER_SIZE]]

Min2(a, b) == IF a < b THEN a ELSE b

\* a send that would let an item larger than the whole buffer through
SendFitsAnySize(len) == len <= FreeSize \/ len > RX_RING_BUFFER_SIZE

\* xRingbufferSend with a zero timeout takes an item only whole: it must not
\* exceed the buffer size and must fit into the free space
SendFits(len) == len <= RX_RING_BUFFER_SIZE /\ len <= FreeSize

\* the storage after copying data at the write position, wrapping at the end
Stored(data) ==
  [i \in Pos |->
     IF \E k \in 1..Len(data) : (rbWrite + k - 1) % RX_RING_BUFFER_SIZE = i
       THEN data[CHOOSE k \in 1..Len(data) :
                   /\ (rbWrite + k - 1) % RX_RING_BUFFER_SIZE = i
                   /\ \A j \in 1..Len(data) :
                        (rbWrite + j - 1) % RX_RING_BUFFER_SIZE = i => j <= k]
       ELSE rbData[i]]

\* 728: xRingbufferSend(_s_rx_ring_buffer, data, data_len, 0), result ignored
RingbufferSend(data) ==
  IF SendFits(Len(data))
    THEN /\ rbData' = Stored(data)
         /\ rbWrite' = (rbWrite + Len(data)) % RX_RING_BUFFER_SIZE
         /\ rbFull' = (Len(data) = FreeSize)
         /\ accepted' = accepted \o data
    ELSE UNCHANGED << rbData, rbWrite, rbFull, accepted >>

\* xRingbufferReceive on a byte buffer hands out the bytes that lie
\* contiguously from the read position: up to the write position, or up to
\* the end of the storage when the data wraps
ReceiveSize ==
  IF rbFull \/ rbRead > rbWrite THEN RX_RING_BUFFER_SIZE - rbRead
  ELSE rbWrite - rbRead

Item == [k \in 1..ReceiveSize |-> rbData[rbRead + k - 1]]

\* 737-741: copy_len bytes of the item are copied out
Copied(item, max_len) == SubSeq(item, 1, Min2(max_len, Len(item)))

\* an available that answers from the read position alone
availableWithoutItemsTest ==
  IF ~rx_ring_buffer THEN 0 ELSE RX_RING_BUFFER_SIZE - rbRead

\* available(), lines 746-764.  vRingbufferGetInfo(rb, uxFree, uxRead,
\* uxWrite, uxAcquire, uxItemsWaiting) is called with &free_bytes as its
\* third argument: free_bytes receives the offset of the read position.
\* On a byte buffer uxItemsWaiting is the number of bytes stored
available ==
  IF ~rx_ring_buffer THEN 0
  ELSE LET items_waiting == ItemsWaiting
           free_bytes == rbRead
           estimated_data == RX_RING_BUFFER_SIZE - free_bytes IN
         IF items_waiting = 0 THEN 0
         ELSE IF estimated_data > 0 THEN estimated_data ELSE 1

\* the value read(buffer, max_len) returns in the current state (733-744)
ReadReturns(max_len) ==
  Len(Copied(IF ~rx_ring_buffer \/ max_len = 0 THEN << >> ELSE Item, max_len))

\* data_received_callback(data, data_len, user_ctx), lines 726-731; the
\* bytes are numbered in arrival order.  The callback has no statement after
\* the send: it logs nothing and counts nothing, so lossRecorded stays
DataReceived(len) ==
  /\ pushed + len <= MaxBytes
  /\ LET data == [k \in 1..len |-> pushed + k] IN
       /\ IF rx_ring_buffer
            THEN RingbufferSend(data)
            ELSE UNCHANGED << rbData, rbWrite, rbFull, accepted >>
       /\ lastPush' = [data |-> data, before |-> Content]
  /\ pushed' = pushed + len
  /\ lastOp' = "push"
  /\ pushesOnly' = (pushesOnly /\ (SendFits(len) \/ ItemsWaiting = 0))
  /\ UNCHANGED << svcVars, taskVars, thrVars, envVars, histVars, fnVars, rx_ring_buffer, rbRead, readOut, lastRead, lossRecorded >>

\* read(buffer, max_len), lines 733-744: one receive, one copy, and the
\* whole item is returned to the buffer
Read(max_len) ==
  /\ LET item == IF ~rx_ring_buffer \/ max_len = 0 THEN << >> ELSE Item
         out  == Copied(item, max_len) IN
       /\ rbRead' = (rbRead + Len(item)) % RX_RING_BUFFER_SIZE
       /\ rbFull' = IF item = << >> THEN rbFull ELSE FALSE
       /\ readOut' = readOut \o out
       /\ lastRead' = [max_len |-> max_len, before |-> Content, out |-> out,
                       pushesOnly |-> pushesOnly, afterPush |-> lastOp = "push",
                       afterDisconnect |-> sinceDisconnect]
       /\ pushesOnly' = (Len(item) = ItemsWaiting)
  /\ lastOp' = "read"
  /\ UNCHANGED << svcVars, taskVars, thrVars, envVars, histVars, fnVars, rx_ring_buffer, rbData, rbWrite, pushed, accepted, lastPush, lossRecorded >>

NextBuf ==
  \/ \E len \in 1..(RX_RING_BUFFER_SIZE + MaxOver) : DataReceived(len)
  \/ \E max_len \in 0..MaxReadLen : Read(max_len)

SpecBuf == Init /\ [][NextBuf]_vars

(***************************************************************************)
(* detectDeviceType(vid, pid), lines 777-840, called on its own with       *)
(* arguments drawn from a sample of the 16-bit identifiers.                *)
(***************************************************************************)
\* vendor ids: 0, the nine the function tests (0x1A86, 0x0403, 0x10C4, 0x067B,
\* 0x2341, 0x0483, 0x03EB, 0x04D8), 0x1234 and 0xFFFF
SampleVids == {0, 6790, 1027, 4292, 1659, 9025, 1155, 1003, 1240, 4660, 65535}

\* product ids: the fourteen the function tests, their neighbours
\* 0x7524, 0xEA5F, 0xEA61, 0xEA6F, 0xEA72, 0x2305, and 0, 0x0043, 0xFFFF
SamplePids ==
  {29987, 29986, 30084, 21795, 24577, 24592, 24593, 24596, 24597,
   60000, 60016, 60017, 8963, 8964,
   29988, 59999, 60001, 60015, 60018, 8965, 0, 67, 65535}

InitClassify ==
  /\ InitSession
  /\ InitBuffer
  /\ argVid \in SampleVids
  /\ argPid \in SamplePids
  /\ detected = "none"

\* type = detectDeviceType(vid, pid): the function reads and writes no member
Classify ==
  /\ detected = "none"
  /\ detected' = detectDeviceType(argVid, argPid)
  /\ UNCHANGED << svcVars, taskVars, thrVars, envVars, histVars, argVid, argPid, bufVars >>

NextClassify == Classify

SpecClassify == InitClassify /\ [][NextClassify]_vars

(***************************************************************************)
(* The receive buffer across the end of a session: a connected session     *)
(* with its heartbeat running receives data, and is then ended by a        *)
(* disconnect notification, an error event or the STOP button.             *)
(***************************************************************************)
\* bytes the device sends in one run of this specification
MaxKeepBytes == 3

\* the session after START with candidate 1 plugged in and opened by the
\* scan task, which has started the heartbeat (lines 562-598)
ConnectedWithHeartbeat ==
  /\ scan_task_handle = TRUE
  /\ heartbeat_task_handle = 1
  /\ scan_task_should_stop = FALSE
  /\ heartbeat_task_should_stop = FALSE
  /\ is_device_connected = TRUE
  /\ cdc_device_handle = 1
  /\ device_vid = Candidate(1)[1]
  /\ device_pid = Candidate(1)[2]
  /\ current_device_type = detectDeviceType(Candidate(1)[1], Candidate(1)[2])
  /\ current_config = DefaultConfig
  /\ heartbeat_enabled = TRUE
  /\ scanPc = "s_loop"
  /\ scanI = 0
  /\ hbPc = [k \in HbTasks |-> IF k = 1 THEN "h_loop" ELSE "dead"]
  /\ hbCounter = [k \in HbTasks |-> 0]
  /\ pc = [t \in Threads |-> "idle"]
  /\ stack = [t \in Threads |-> << >>]
  /\ wi = [t \in Threads |-> 0]
  /\ loaded = [t \in Threads |-> 0]
  /\ newCfg = DefaultConfig
  /\ attempt = 0
  /\ startEnabled = FALSE
  /\ displayed = "none"
  /\ attached = 1
  /\ hstate = [h \in Handles |-> IF h = 1 THEN "open" ELSE "unused"]
  /\ errCount = 0
  /\ stopFromScanning = FALSE
  /\ configured = FALSE
  /\ sinceDisconnect = FALSE
  /\ reqLog = << >>
  /\ frames = << >>
  /\ writeLog = << >>

InitKeep == ConnectedWithHeartbeat /\ InitBuffer /\ InitDetect

\* the driver calls data_received_callback in its own context, for a
\* device that is open
UsbData(len) ==
  /\ pc["usb"] = "idle"
  /\ \E h \in Handles : hstate[h] = "open"
  /\ pushed + len <= MaxKeepBytes
  /\ DataReceived(len)

\* uiUpdateTimerCb (USB_CDC.cpp 246-257) calls read on the application
\* thread, between two handlers
UiRead(max_len) ==
  /\ pc["ui"] = "idle"
  /\ Read(max_len)

NextKeep ==
  \/ Unplug
  \/ ScanLoop \/ ScanOpenFail \/ ScanExit
  \/ \E k \in HbTasks : HbLoop(k) \/ HbTx(k) \/ HbExit(k)
  \/ \E t \in Threads : StopHbBegin(t) \/ StopHbWait(t) \/ StopHbDelete(t)
  \/ StopScanBegin \/ StopScanWait \/ StopScanDelete
  \/ ForceDiscClose \/ ForceDiscClear
  \/ UiStop \/ UiStopDone
  \/ \E h \in Handles : EvDisconnected(h)
  \/ EvClose \/ EvClearHandle \/ EvClearIdentity
  \/ \E h \in Handles : EvError(h)
  \/ EvErrorClearConnected
  \/ \E len \in 1..2 : UsbData(len)
  \/ \E max_len \in {1, MaxReadLen} : UiRead(max_len)

SpecKeep == InitKeep /\ [][NextKeep]_vars

(***************************************************************************)
(* The heartbeat frames of one connected session, with the heartbeat       *)
(* switched off and on (onSwitchHeartbeatChanged, updateHeartbeatState).   *)
(***************************************************************************)
InitSeq == ConnectedWithHeartbeat /\ InitBuffer /\ InitDetect

NextSeq ==
  \/ \E k \in HbTasks : HbLoop(k) \/ HbTxFrame(k) \/ HbExit(k)
  \/ UiHbSwitch \/ UiHbCheck \/ UiHbCreate
  \/ \E t \in Threads : StopHbBegin(t) \/ StopHbWait(t) \/ StopHbDelete(t)

SpecSeq == InitSeq /\ [][NextSeq]_vars

(***************************************************************************)
(* write called at any moment of a session that is connected and then      *)
(* ended by a disconnect notification, an error event or the STOP button.  *)
(***************************************************************************)
InitWrite == ConnectedWithHeartbeat /\ InitBuffer /\ InitDetect

NextWrite ==
  \/ Unplug
  \/ ScanLoop \/ ScanOpenFail \/ ScanExit
  \/ \E k \in HbTasks : HbLoop(k) \/ HbTx(k) \/ HbExit(k)
  \/ \E t \in Threads : StopHbBegin(t) \/ StopHbWait(t) \/ StopHbDelete(t)
  \/ StopScanBegin \/ StopScanWait \/ StopScanDelete
  \/ ForceDiscClose \/ ForceDiscClear
  \/ UiStop \/ UiStopDone
  \/ \E h \in Handles : EvDisconnected(h)
  \/ EvClose \/ EvClearHandle \/ EvClearIdentity
  \/ \E h \in Handles : EvError(h)
  \/ EvErrorClearConnected
  \/ \E len \in 0..1 : UiWriteCall(len)
  \/ UiWriteTx

SpecWrite == InitWrite /\ [][NextWrite]_vars

(***************************************************************************)
(* Scanning with an adapter that stays plugged and works, and without a    *)
(* stop request: no Unplug, no error event, no STOP, end or close.  The    *)
(* scan task is scheduled again and again (its sleeps are bounded), and    *)
(* cdc_acm_host_open of an attached adapter does not fail forever.         *)
(***************************************************************************)
\* the steps of device_scan_task while it is not asked to stop
ScanStep ==
  \/ ScanLoop \/ ScanOpenOk \/ ScanOpenFail \/ ScanConnected
  \/ ScanStab \/ ScanHbCheck \/ ScanHbCreate

NextLive ==
  \/ \E d \in Devices : Plug(d)
  \/ ScanStep
  \/ \E k \in HbTasks : HbLoop(k) \/ HbTx(k) \/ HbExit(k)
  \/ \E t \in Threads : StopHbBegin(t) \/ StopHbWait(t) \/ StopHbDelete(t)
  \/ UiStart \/ UiHbCheck \/ UiHbCreate \/ UiHbSwitch
  \/ UiWrite \/ UiWriteTx

SpecLive ==
  Init /\ [][NextLive]_vars /\ WF_vars(ScanStep) /\ SF_vars(ScanOpenOk)

(***************************************************************************)
(* The session with setCurrentConfig called between the handlers: START    *)
(* and STOP, the scan and heartbeat tasks, the disconnect notification and *)
(* the error event; without write, end and close.                          *)
(***************************************************************************)
\* setCurrentConfig(config), lines 971-977, called on the ui thread
setCurrentConfig(config) ==
  /\ pc["ui"] = "idle"
  /\ current_config' = config
  /\ UNCHANGED << scan_task_handle, heartbeat_task_handle, scan_task_should_stop, heartbeat_task_should_stop, is_device_connected, cdc_device_handle, device_vid, device_pid, current_device_type, heartbeat_enabled, taskVars, thrVars, envVars, histVars, fnVars, bufVars >>

NextFrame ==
  \/ \E d \in Devices : Plug(d)
  \/ Unplug
  \/ ScanLoop \/ ScanOpenOk \/ ScanOpenFail \/ ScanConnected
  \/ ScanStab \/ ScanHbCheck \/ ScanHbCreate \/ ScanExit
  \/ \E k \in HbTasks : HbLoop(k) \/ HbTx(k) \/ HbExit(k)
  \/ \E t \in Threads : StopHbBegin(t) \/ StopHbWait(t) \/ StopHbDelete(t)
  \/ StopScanBegin \/ StopScanWait \/ StopScanDelete
  \/ ForceDiscClose \/ ForceDiscClear
  \/ UiStart \/ UiHbCheck \/ UiHbCreate \/ UiStop \/ UiStopDone \/ UiHbSwitch
  \/ \E h \in Handles : EvDisconnected(h) \/ EvError(h)
  \/ EvClose \/ EvClearHandle \/ EvClearIdentity \/ EvErrorClearConnected
  \/ \E config \in Configs : setCurrentConfig(config)

SpecFrame == Init /\ [][NextFrame]_vars

(***************************************************************************)
(* Session states of the specification, read off the service's members.    *)
(***************************************************************************)
NoScanTask == scanPc = "dead" /\ ~scan_task_handle
NoHeartbeatTask == heartbeat_task_handle = 0 /\ \A k \in HbTasks : hbPc[k] = "dead"
IdentityCleared == device_vid = 0 /\ device_pid = 0

Idle ==
  /\ NoScanTask
  /\ NoHeartbeatTask
  /\ cdc_device_handle = 0
  /\ ~is_device_connected
  /\ IdentityCleared

\* C1: when the STOP handler (stopScan, stopHeartbeat, forceDisconnectDevice)
\* has run to its end, from whatever state it was started in and whatever
\* the scan task, the heartbeat task and the event callback did meanwhile,
\* the session is Idle: no scan task, no heartbeat task, handle null, not
\* connected, identity cleared.
C1_StopEndsInIdle == pc["ui"] = "st_done" => Idle

\* C2: the step that ends the handling of a disconnect notification for the
\* open device leaves the handle null, the connected flag false, vid and pid
\* zero and the chipset family Unknown.
C2_DisconnectClearsSession ==
  [][pc["usb"] = "ev_id" /\ pc'["usb"] = "idle" =>
       /\ cdc_device_handle' = 0
       /\ ~is_device_connected'
       /\ IdentityCleared'
       /\ current_device_type' = DEVICE_TYPE_UNKNOWN]_vars

\* C3: the step that ends the handling of a CDC_ACM_HOST_ERROR event leaves
\* the session torn down as a disconnect does: no heartbeat task handle, the
\* device handle released and null, not connected, identity and family
\* cleared.
C3_ErrorTearsDown ==
  [][pc["usb"] = "er_conn" /\ pc'["usb"] = "idle" =>
       /\ heartbeat_task_handle' = 0
       /\ cdc_device_handle' = 0
       /\ \A h \in Handles : hstate'[h] # "open" /\ hstate'[h] # "gone"
       /\ ~is_device_connected'
       /\ IdentityCleared'
       /\ current_device_type' = DEVICE_TYPE_UNKNOWN]_vars

\* C4: whenever the connected flag turns true, a Configurator transfer has
\* been issued on the device since it was opened.
C4_ConfiguredBeforeConnected ==
  [][~is_device_connected /\ is_device_connected' => configured']_vars

\* C8: every data or control transfer (write, heartbeat transmit, a
\* Configurator request) is issued on a handle that has not been closed, and
\* no close is issued on a handle that is already closed.
IsTransfer ==
  \/ UiWriteTx
  \/ \E k \in HbTasks : HbTx(k)
  \/ CfgSetLineCoding \/ CfgGetLineCoding \/ CfgSetControlLine
  \/ Ch340SetBaud \/ Ch340SetFormat \/ Ch340SetLines

IsClose == ForceDiscClose \/ EvClose \/ EndClose

C8_NoTransferAfterClose ==
  [][(IsTransfer \/ IsClose) => ~IsClosed(cdc_device_handle)]_vars

\* C9: at every close of the device handle (disconnect notification,
\* forceDisconnectDevice, end) no heartbeat task is alive, and no heartbeat
\* transmit is issued on a closed handle.
C9_HeartbeatStoppedBeforeClose ==
  [][/\ (IsClose /\ cdc_device_handle # 0) => \A k \in HbTasks : hbPc[k] = "dead"
     /\ (\E k \in HbTasks : HbTx(k)) => ~IsClosed(cdc_device_handle)]_vars

\* C10: from the moment the stop flag is set while the session is Scanning
\* until the STOP handler is done, the connected flag stays false.
C10_NoConnectAfterStop == stopFromScanning => ~is_device_connected

\* C5: no read returns more than max_len bytes, and the bytes read so far
\* followed by the bytes still buffered are exactly the bytes the buffer
\* accepted: a read loses nothing, the read results form a prefix of the
\* accepted bytes.
C5_ReadLosesNothing ==
  /\ Len(lastRead.out) <= lastRead.max_len
  /\ readOut \o Content = accepted

\* C6: a read with max_len >= N, made when the buffer holds the N bytes of
\* the pushes accepted since it was last empty, returns exactly those N bytes
\* in push order.
C6_RoundTrip ==
  (/\ lastOp = "read"
   /\ lastRead.pushesOnly
   /\ lastRead.max_len >= Len(lastRead.before))
  => lastRead.out = lastRead.before

\* the last push was one of more than RX_RING_BUFFER_SIZE bytes into an
\* empty buffer
OversizePush == Len(lastPush.data) > RX_RING_BUFFER_SIZE /\ lastPush.before = << >>

\* C7 as stated: after a push of capacity+K bytes into an empty buffer the
\* buffer holds the first capacity bytes of it, and the pull that follows
\* returns them.
C7_KeepsFirstCapacityBytes ==
  /\ (lastOp = "push" /\ OversizePush)
       => Content = SubSeq(lastPush.data, 1, RX_RING_BUFFER_SIZE)
  /\ (lastOp = "read" /\ lastRead.afterPush /\ OversizePush
        /\ lastRead.max_len >= RX_RING_BUFFER_SIZE)
       => lastRead.out = SubSeq(lastPush.data, 1, RX_RING_BUFFER_SIZE)

\* C7 amended: a push of capacity+K bytes into an empty buffer is refused
\* whole; the buffer stays empty, none of the bytes count as accepted, and
\* the pull that follows returns nothing.
C7_OversizePushRefused ==
  /\ (lastOp = "push" /\ OversizePush)
       => /\ Content = << >>
          /\ \A k \in 1..Len(accepted) : accepted[k] \notin { lastPush.data[j] : j \in 1..Len(lastPush.data) }
  /\ (lastOp = "read" /\ lastRead.afterPush /\ OversizePush)
       => lastRead.out = << >>

\* a pull that asked for bytes right after an oversize push into an empty buffer
C7_Witness ==
  lastOp = "read" /\ lastRead.afterPush /\ OversizePush /\ lastRead.max_len >= RX_RING_BUFFER_SIZE

\* the usb context is inside the DISCONNECTED branch of device_event_callback
InDisconnectBranch ==
  \/ pc["usb"] \in {"ev_close", "ev_null", "ev_id"}
  \/ pc["usb"] \in {"sh_chk", "sh_wait", "sh_del"} /\ Head(stack["usb"]) = "ev_close"

\* the step that ends the DISCONNECTED branch
DisconnectHandled == pc["usb"] = "ev_id" /\ pc'["usb"] = "idle"

BetweenTransfers == pc["ui"] \in {"cf_x2", "cf_x3", "ch_x2", "ch_x3"}

\* C12: no heartbeat frame is transmitted between the first and the last
\* control transfer of a reconfigure of a Connected session.
C12_HeartbeatPausedDuringReconfigure ==
  [][(\E k \in HbTasks : HbTx(k)) => ~BetweenTransfers]_vars

\* the guard of configureSerialPort / configureCH340SerialPort finds no
\* connected session
NoActiveSession == ~is_device_connected \/ cdc_device_handle = 0

C14_NoFrameWhileDisabled ==
  [][\A k \in HbTasks :
       (hbPc[k] = "h_loop" /\ hbPc'[k] = "h_tx" /\ pc["ui"] = "idle") => heartbeat_enabled]_vars

\* the step in which thread t force-deletes the heartbeat task (324)
ForcedHbDelete(t) == pc[t] = "sh_del" /\ pc'[t] # "sh_del" /\ heartbeat_task_handle # 0

\* the step in which stopScan force-deletes the scan task (253)
ForcedScanDelete == pc["ui"] = "ss_del" /\ pc'["ui"] # "ss_del" /\ scan_task_handle

\* C15: a task is force-deleted only after every slice of the cooperative
\* wait has been used (200 for the scan task, 300 for the heartbeat task,
\* scaled to ScanWaitSlices and HbWaitSlices); the stop flag has been set
\* before the wait by construction (240, 311).
C15_ForcedOnlyAfterFullWait ==
  [][/\ ForcedScanDelete => wi["ui"] = ScanWaitSlices
     /\ \A t \in Threads : ForcedHbDelete(t) => wi[t] = HbWaitSlices]_vars

\* thread t returns from stopHeartbeat / the ui thread returns from stopScan
ReturnsFromStopHb(t) ==
  pc[t] \in {"sh_chk", "sh_wait", "sh_if", "sh_del"} /\ Len(stack'[t]) < Len(stack[t])

ReturnsFromStopScan ==
  pc["ui"] \in {"ss_chk", "ss_wait", "ss_if", "ss_del"} /\ Len(stack'["ui"]) < Len(stack["ui"])

\* C16: a caller of stopScan or stopHeartbeat is never lost inside the call
\* (it always gets control back), and when it returns the task handle of
\* the stopped task is null.
C16_StopAlwaysReturns ==
  [][/\ \A t \in Threads : pc'[t] # "deleted"
     /\ \A t \in Threads : ReturnsFromStopHb(t) => heartbeat_task_handle' = 0
     /\ ReturnsFromStopScan => ~scan_task_handle']_vars

(***************************************************************************)
(* The Configurator's control transfers (SpecApply).                       *)
(***************************************************************************)
\* a configureSerialPort call of the Apply handler has returned
CallReturned == pc["ui"] = "ap_loop" /\ attempt > 0

\* the call issued the request b
Issued(b) == \E i \in 1..Len(reqLog) : reqLog[i].bRequest = b

\* the attached adapter answered the request b of the call with an error
Rejected(b) ==
  /\ attached # 0
  /\ \E i \in 1..Len(reqLog) : reqLog[i].bRequest = b /\ reqLog[i].ret = "ESP_FAIL"

\* C17: when the adapter rejects SET_LINE_CODING for a CP210x or PL2303
\* device, the call still issues SET_CONTROL_LINE_STATE (DTR | RTS) before it
\* returns
C17_ControlLinesDespiteRejection ==
  (/\ CallReturned
   /\ current_device_type \in {DEVICE_TYPE_CP210X, DEVICE_TYPE_PL2303}
   /\ Rejected(SET_LINE_CODING))
    => Issued(SET_CONTROL_LINE_STATE)

\* the format test of line 418
Is8N1(c) == c.data_bits = 8 /\ c.parity = 0 /\ c.stop_bits = 0

\* C18: a format other than 8-N-1 requested for an attached CH340 device is
\* surfaced as a partial success: the caller is never told what it is told
\* after a full success ("[Settings] Applied" with the requested format)
C18_DowngradeSurfaced ==
  ~(/\ attached # 0
    /\ displayed = "Applied"
    /\ current_device_type = DEVICE_TYPE_CH340
    /\ ~Is8N1(current_config))

\* the vendor requests 0x9A, 0x9B, 0xA4 in the order of configureCH340SerialPort
Ch340Sequence == << CH340_SET_BAUD_RATE, CH340_SET_DATA_FORMAT, CH340_SET_CONTROL_LINES >>

C20_ControlLinesOnlyForGoodFamilies ==
  \A i \in 1..Len(reqLog) :
    reqLog[i].bRequest = SET_CONTROL_LINE_STATE
      => /\ reqLog[i].wValue = 3
         /\ current_device_type \in {DEVICE_TYPE_CP210X, DEVICE_TYPE_PL2303}

\* a call on a PL2303 returned after it had issued SET_CONTROL_LINE_STATE
C20_Witness ==
  /\ CallReturned
  /\ current_device_type = DEVICE_TYPE_PL2303
  /\ Issued(SET_CONTROL_LINE_STATE)

(***************************************************************************)
(* Classification (SpecClassify).                                          *)
(***************************************************************************)
\* the registered pairs with their families, as the claim lists them:
\* 1A86:{7523,7522,7584,5523}, 0403:{6001,6010,6011,6014,6015},
\* 10C4:{EA60,EA70,EA71}, 067B:{2303,2304}
Registered ==
  [ CH340 |-> {6790} \X {29987, 29986, 30084, 21795},
    FT232 |-> {1027} \X {24577, 24592, 24593, 24596, 24597},
    CP210X |-> {4292} \X {60000, 60016, 60017},
    PL2303 |-> {1659} \X {8963, 8964} ]

C29_Cp210xRange ==
  (detected # "none" /\ argVid = 4292 /\ argPid \in 60000..60017)
    => detected = DEVICE_TYPE_CP210X

\* the baud register table of the CH340, keyed by baud rate
Ch340BaudTable ==
  [b \in {2400, 4800, 9600, 19200, 38400, 57600, 115200, 230400, 460800, 921600} |->
     CASE b = 2400 -> 55553 [] b = 4800 -> 25602 [] b = 9600 -> 45570
       [] b = 19200 -> 55554 [] b = 38400 -> 25603 [] b = 57600 -> 38915
       [] b = 115200 -> 52227 [] b = 230400 -> 58883 [] b = 460800 -> 62211
       [] b = 921600 -> 63748]

\* C22: the wIndex of the CH340 set-baud-rate transfer (0x9A) is the table
\* entry of the requested baud rate, and the 115200 entry (0xCC03) for a
\* baud rate the table does not hold
C22_BaudRegister ==
  \A i \in 1..Len(reqLog) :
    reqLog[i].bRequest = CH340_SET_BAUD_RATE
      => reqLog[i].wIndex = IF newCfg.baud_rate \in DOMAIN Ch340BaudTable
                              THEN Ch340BaudTable[newCfg.baud_rate]
                              ELSE Ch340BaudTable[115200]

\* the set-baud-rate transfer was sent for 1500000 baud with the 115200 entry
C22_Witness ==
  /\ newCfg.baud_rate = 1500000
  /\ \E i \in 1..Len(reqLog) :
       reqLog[i].bRequest = CH340_SET_BAUD_RATE /\ reqLog[i].wIndex = 52227

\* C23: when the receive callback could not buffer bytes it was given, the
\* loss has been recorded
C23_LossRecorded == pushed > Len(accepted) => lossRecorded > 0

(***************************************************************************)
(* The receive buffer and the end of a session (SpecKeep).                 *)
(***************************************************************************)
\* a step of the session: of the event callback, the STOP handler with
\* stopScan, stopHeartbeat and forceDisconnectDevice, the tasks, the adapter
SessionStep ==
  << svcVars, taskVars, thrVars, envVars >>' # << svcVars, taskVars, thrVars, envVars >>

\* a step of read
ReadStep == lastOp' = "read" /\ lastRead' # lastRead

\* C24: no step of the session (disconnect notification, error event,
\* forceDisconnectDevice, stopScan, stopHeartbeat) changes the buffered bytes
\* or their order, and a read after the disconnect returns the oldest of the
\* bytes queued before it
C24_BufferOutlivesSession ==
  [][/\ SessionStep => (rx_ring_buffer' = rx_ring_buffer /\ Content' = Content)
     /\ (ReadStep /\ sinceDisconnect /\ lastRead'.max_len > 0 /\ Content # << >>)
          => /\ lastRead'.out # << >>
             /\ lastRead'.out = SubSeq(Content, 1, Len(lastRead'.out))]_vars

\* after the disconnect was handled and the handle nulled, a read returned
\* bytes that were queued before
C24_Witness ==
  /\ lastOp = "read"
  /\ lastRead.afterDisconnect
  /\ lastRead.out # << >>
  /\ cdc_device_handle = 0
  /\ ~is_device_connected

(***************************************************************************)
(* The heartbeat frames of a session (SpecSeq).                            *)
(***************************************************************************)
\* C25: over the frames transmitted in one connected session, however often
\* the heartbeat was stopped and started, each sequence number is greater
\* than the one of the frame before
C25_SequenceIncreases ==
  \A i \in 1..Len(frames) : i > 1 => frames[i].seq > frames[i - 1].seq

\* a heartbeat task k transmits a frame and the transmission fails
FrameFails(k) ==
  /\ hbPc[k] = "h_tx"
  /\ Len(frames') = Len(frames) + 1
  /\ frames'[Len(frames')].task = k
  /\ frames'[Len(frames')].ret = "ESP_FAIL"

\* C26: a failed heartbeat transmission changes neither isConnected(), the
\* device handle, the identity and family nor the heartbeat task, which goes
\* on to its next interval
C26_TxFailureNotEscalated ==
  [][\A k \in HbTasks :
       FrameFails(k) =>
         /\ UNCHANGED << is_device_connected, cdc_device_handle, device_vid,
                         device_pid, current_device_type, heartbeat_task_handle,
                         heartbeat_task_should_stop >>
         /\ hbPc'[k] = "h_loop"]_vars

\* a task whose transmission failed has transmitted its next frame
C26_Witness ==
  \E i \in 1..Len(frames) :
    /\ i > 1
    /\ frames[i - 1].ret = "ESP_FAIL"
    /\ frames[i].task = frames[i - 1].task
    /\ frames[i].seq = frames[i - 1].seq + 1
    /\ is_device_connected

(***************************************************************************)
(* write without a session (SpecWrite).                                    *)
(***************************************************************************)
\* a call of write made while isConnected() is false or the handle is null
WriteWithoutSession ==
  /\ Len(writeLog') = Len(writeLog) + 1
  /\ ~is_device_connected \/ cdc_device_handle = 0

\* C27: a write called while no session is connected transmits nothing and
\* changes no state of the service, of the driver or of the caller
C27_WriteWithoutSessionIsNoOp ==
  [][WriteWithoutSession =>
       /\ ~writeLog'[Len(writeLog')].sent
       /\ UNCHANGED << svcVars, taskVars, thrVars, envVars, bufVars >>]_vars

\* write was called twice with data in a session that had ended (an error
\* event was handled, the handle is cleared) and transmitted neither time
C27_Witness ==
  /\ Len(writeLog) = 2
  /\ ~writeLog[1].sent /\ writeLog[1].len > 0
  /\ ~writeLog[2].sent /\ writeLog[2].len > 0
  /\ cdc_device_handle = 0
  /\ errCount > 0

\* C28: when configureSerialPort(config) has returned on a connected device
\* (its guard passed and every transfer it issued succeeded),
\* getCurrentConfig() returns config
C28_ConfigureSavesConfig ==
  (/\ CallReturned
   /\ reqLog # << >>
   /\ \A i \in 1..Len(reqLog) : reqLog[i].ret = "ESP_OK")
    => current_config = newCfg

\* C30: once the disconnect notification has been handled, isConnected() is
\* false as long as no device is open again, and isConnected() is never true
\* while the handle is null
C30_ConnectedImpliesHandle ==
  /\ is_device_connected => cdc_device_handle # 0
  /\ (sinceDisconnect /\ pc["usb"] = "idle" /\ \A h \in Handles : hstate[h] # "open")
       => ~is_device_connected

(***************************************************************************)
(* Tasks and handles of the session (Spec, SpecStop).                      *)
(***************************************************************************)
\* C31: at most one heartbeat task exists at any time
C31_AtMostOneHeartbeat ==
  Cardinality({ k \in HbTasks : hbPc[k] # "dead" }) <= 1

\* C32: a forced vTaskDelete of stopScan / stopHeartbeat is applied only to a
\* task that is still alive, never to one that has already terminated itself:
\* the step that executes the call with a task handle ends a live task
ForcedDeleteWithHandle(t) ==
  /\ pc[t] \in {"ss_del", "sh_del"}
  /\ pc'[t] \notin {pc[t], "deleted"}
C32_ForcedDeleteOnlyLiveTask ==
  [][ \A t \in Threads : ForcedDeleteWithHandle(t) =>
        \/ scanPc # "dead" /\ scanPc' = "dead"
        \/ \E k \in HbTasks : hbPc[k] # "dead" /\ hbPc'[k] = "dead" ]_vars

(***************************************************************************)
(* The handle variable and the opens of the scan task (Spec).              *)
(***************************************************************************)
\* the scan task's call of cdc_acm_host_open returns (562-563)
OpenReturns ==
  /\ scanPc = "s_open"
  /\ scanPc' # "dead"
  /\ << scanPc, scanI >> # << scanPc', scanI' >>

\* C33: the scan task opens a device, and lets the open overwrite the
\* handle variable, only when no earlier handle is still unclosed: the
\* variable is null or names a closed handle at every open
C33_NoOpenOverUnclosedHandle ==
  [][ OpenReturns =>
        cdc_device_handle = 0 \/ IsClosed(cdc_device_handle) ]_vars

(***************************************************************************)
(* Liveness of scanning (SpecLive).                                        *)
(***************************************************************************)
\* C34: with a candidate adapter attached for good and the scan task started
\* and never asked to stop, the session eventually becomes connected; and
\* while it is connected the scan task is in no cdc_acm_host_open
C34_ScanningIsLive ==
  /\ (attached # 0 /\ scanPc # "dead") ~> is_device_connected
  /\ [](is_device_connected => scanPc # "s_open")
\* the scan task has connected the adapter it found second in its table
\* and is back in its loop, idling
C34_Witness ==
  /\ attached = NumProbed
  /\ is_device_connected
  /\ scanPc = "s_loop"
  /\ cdc_device_handle # 0

(***************************************************************************)
(* Cooperative cancellation of the scan task (Spec).                       *)
(***************************************************************************)
\* the scan task enters cdc_acm_host_open for a candidate (548, 562)
BeginsOpen ==
  /\ scanPc' = "s_open"
  /\ scanPc # "s_open" \/ scanI' # scanI
\* the scan task's startHeartbeat creates the heartbeat task (593 -> 296)
ScanStartsHeartbeat ==
  /\ scanPc = "s_hb_create"
  /\ scanPc' = "s_loop"

\* C35: once _scan_task_should_stop is set the scan task begins no open of
\* a further candidate and does not start the heartbeat
C35_NoNewWorkAfterStopFlag ==
  [][ scan_task_should_stop => ~BeginsOpen /\ ~ScanStartsHeartbeat ]_vars

(***************************************************************************)
(* What a poller of isConnected reads (Spec).                              *)
(***************************************************************************)
\* C36: whenever isConnected() is true the recorded chipset family is the
\* classification of the recorded vid and pid, and is not DEVICE_TYPE_UNKNOWN
C36_ConnectedTypeMatchesIdentity ==
  is_device_connected =>
    /\ current_device_type = detectDeviceType(device_vid, device_pid)
    /\ current_device_type # DEVICE_TYPE_UNKNOWN

(***************************************************************************)
(* available and read (SpecBuf).                                           *)
(***************************************************************************)
\* the bytes the receive buffer holds
Buffered == IF rx_ring_buffer THEN ItemsWaiting ELSE 0

\* C37: available() is 0 exactly when no byte is buffered, and whenever it
\* is above 0 a read with max_len >= 1 made next returns at least one byte
C37_AvailableZeroIffEmpty ==
  /\ (available = 0) <=> (Buffered = 0)
  /\ available > 0 => \A max_len \in 1..MaxReadLen : ReadReturns(max_len) >= 1
\* after a read has moved the read position, one byte is buffered and
\* available() answers with more than that: callers cannot take it as a size
C37_Witness ==
  /\ lastOp = "push"
  /\ rbRead > 0
  /\ Buffered = 1
  /\ available > 1
  /\ ReadReturns(MaxReadLen) = 1

=============================================================================
